---- MODULE Spec2Model ----
(***************************************************************************)
(* A state-machine model of the digital_life simulation core               *)
(* (crates/digital-life-core/src/world): World::try_new, the phases of     *)
(* World::step, reproduction, compaction and the experiment driver.        *)
(*                                                                         *)
(* Numbers.  f32 quantities that live in [0,1] (boundary_integrity,        *)
(* internal_state, maturity) and energy/waste are fixed-point integers     *)
(* with One units per 1.0.  f64 coordinates are values of a small binary   *)
(* floating-point format (two significand bits, RoundF), so that the       *)
(* rounding of rem_euclid is part of the model.  u32 agent ids, the u16    *)
(* organism index and MAX_TOTAL_AGENTS are scaled down to small ranges so  *)
(* that their limits are reached.                                          *)
(***************************************************************************)
EXTENDS Integers, Sequences, FiniteSets, TLC

\* ------------------------------------------------------------------ bounds
\* Steps a world is driven for.
MaxSteps == 3
\* Stand-in for u32::MAX, the largest agent id value.
U32Max == 9
\* Stand-in for u16::MAX, the largest organism index.
U16Max == 4
\* Stand-in for SimConfig::MAX_TOTAL_AGENTS.
MAX_TOTAL_AGENTS == 6

\* ------------------------------------------------------------ fixed point
\* Units per 1.0 of an f32 quantity.
One == 2

Max(a, b) == IF a >= b THEN a ELSE b

Min(a, b) == IF a <= b THEN a ELSE b

Abs(a) == IF a < 0 THEN -a ELSE a

\* f32::clamp(lo, hi)
Clamp(x, lo, hi) == IF x < lo THEN lo ELSE IF x > hi THEN hi ELSE x

\* Product of two fixed-point quantities.
FMul(a, b) == (a * b) \div One

\* ---------------------------------------------------------- f64 miniature
\* Spacing of the representable values around a magnitude x >= 0: values
\* below 4 are spaced 1 apart, those in [4,8) 2 apart, in [8,16) 4 apart.
RECURSIVE Ulp(_)
Ulp(x) == IF x < 4 THEN 1 ELSE 2 * Ulp(x \div 2)

\* Round a magnitude x >= 0 to the nearest representable value, ties to the
\* value with the even significand.
RoundMag(x) ==
    LET u  == Ulp(x)
        lo == (x \div u) * u
        hi == lo + u
    IN  IF x = lo THEN x
        ELSE IF x - lo < hi - x THEN lo
        ELSE IF x - lo > hi - x THEN hi
        ELSE IF (lo \div u) % 2 = 0 THEN lo ELSE hi

\* The f64 result of an exact real value x.
RoundF(x) == IF x >= 0 THEN RoundMag(x) ELSE -RoundMag(-x)

\* f64 `%`: the remainder has the sign of the dividend and is exact.
FRem(x, m) == IF x >= 0 THEN x % m ELSE -((-x) % m)

\* f64::rem_euclid(m) for m > 0: `let r = self % rhs; if r < 0.0 { r + rhs }
\* else { r }`, the sum being rounded like every f64 sum.
RemEuclid(x, m) ==
    LET r == FRem(x, m)
    IN  IF r < 0 THEN RoundF(r + m) ELSE r

\* --------------------------------------------------------------- sequences
Range(s) == {s[i] : i \in DOMAIN s}

RECURSIVE SumSeq(_)
SumSeq(s) == IF s = <<>> THEN 0 ELSE Head(s) + SumSeq(Tail(s))

\* Organisms and agents are Rust Vecs indexed from 0; the sequences of the
\* model are indexed from 1, so index i of the code is position i + 1.
At(s, i) == s[i + 1]

\* --------------------------------------------------------------- the config
\* SimConfig: the fields World reads.  Lengths are in coordinate units (4 per
\* 1.0, so world_size 8 is 2.0), f32 rates in One units, dt is 1.0.
BaseConfig ==
    [ world_size |-> 8, num_organisms |-> 2, agents_per_organism |-> 1,
      dt |-> 1, sensing_radius |-> 1, max_speed |-> 2,
      homeostasis_decay_rate |-> 0,
      metabolic_viability_floor |-> 1,
      death_energy_threshold |-> 0, death_boundary_threshold |-> 0,
      boundary_collapse_threshold |-> 0,
      boundary_decay_base_rate |-> 0, boundary_decay_energy_scale |-> One,
      boundary_waste_pressure_scale |-> One, boundary_repair_rate |-> One,
      boundary_repair_waste_penalty_scale |-> One,
      growth_maturation_steps |-> 1,
      growth_immature_metabolic_efficiency |-> 1,
      metabolism_efficiency_multiplier |-> One,
      crowding_neighbor_threshold |-> One, crowding_boundary_decay |-> One,
      reproduction_min_energy |-> One, reproduction_min_boundary |-> 1,
      reproduction_energy_cost |-> 1, reproduction_spawn_radius |-> 0,
      reproduction_child_min_agents |-> 1,
      max_organism_age_steps |-> 2, compaction_interval_steps |-> 3,
      resource_regeneration_rate |-> 1,
      environment_shift_step |-> 0, environment_shift_resource_rate |-> 0,
      environment_cycle_period |-> 0, environment_cycle_low_rate |-> 0,
      enable_response |-> TRUE, enable_homeostasis |-> TRUE,
      enable_boundary_maintenance |-> TRUE, enable_metabolism |-> TRUE,
      enable_growth |-> TRUE, enable_reproduction |-> TRUE,
      enable_evolution |-> FALSE, enable_sham_process |-> FALSE ]

\* ---------------------------------------------------------------- the state
VARIABLES
    config,                 \* SimConfig, fixed at construction
    agents,                 \* Vec<Agent>
    organisms,              \* Vec<OrganismRuntime>
    resource_field,         \* ResourceField.data, by cell <<cx, cy>>
    org_toroidal_sums,      \* per organism: the positions summed this step
    org_counts,             \* per organism: agents summed this step
    next_agent_id,
    step_index,
    births_last_step,
    deaths_last_step,
    total_births,
    total_deaths,
    next_organism_stable_id,
    agent_id_exhaustions_last_step,
    total_agent_id_exhaustions,
    lifespans,
    lineage_events,
    current_resource_rate,
    pc,                     \* the phase of step() that runs next, or "idle"
    locals,                 \* step()'s local values handed from phase to phase
    exp,                    \* the experiment driver's call frame
    ever_agent_ids,         \* history: every agent id held so far
    ever_stable_ids,        \* history: every stable_id given so far
    call                    \* a function applied outside any step: its
                            \* arguments and, once it returned, its result

vars ==
    << config, agents, organisms, resource_field, org_toroidal_sums,
       org_counts, next_agent_id, step_index, births_last_step,
       deaths_last_step, total_births, total_deaths, next_organism_stable_id,
       agent_id_exhaustions_last_step, total_agent_id_exhaustions, lifespans,
       lineage_events, current_resource_rate, pc, locals, exp,
       ever_agent_ids, ever_stable_ids, call >>

worldVars ==
    << agents, organisms, resource_field, org_toroidal_sums, org_counts,
       next_agent_id, step_index, births_last_step, deaths_last_step,
       total_births, total_deaths, next_organism_stable_id,
       agent_id_exhaustions_last_step, total_agent_id_exhaustions, lifespans,
       lineage_events, current_resource_rate >>

\* no function is being applied
NoCall == [ op |-> "none" ]

NoLocals ==
    [ deltas |-> <<>>, neighbor_sums |-> <<>>, neighbor_counts |-> <<>>,
      homeostasis_sums |-> <<>>, homeostasis_counts |-> <<>> ]

\* The frame of try_run_experiment[_with_snapshots]: its arguments, the loop
\* variable `step`, its locals, and what it returned (result "none" until it
\* returns; summary <<>> unless it returned Ok(summary)).
NoExp ==
    [ active |-> FALSE, variant |-> "none", result |-> "none",
      steps |-> 0, sample_every |-> 0, snapshot_steps |-> <<>>,
      step |-> 0, samples |-> <<>>, snapshots |-> <<>>, births_before |-> 0,
      summary |-> <<>> ]

\* ------------------------------------------------------------- construction
\* Agent::new(id, organism_id, position): at rest, pools half full.
AgentNew(id, organism_id, pos) ==
    [ id |-> id, organism_id |-> organism_id, position |-> pos,
      velocity |-> <<0, 0>>, internal_state |-> <<1, 1, 0, 0>> ]

\* MetabolicState::default()
DefaultMetabolicState == [ energy |-> One, waste |-> 0 ]

\* The founder of index id, built from its network (try_new's map closure).
\* A network of this model has zero weights and zero hidden biases; it is
\* given by its four outputs tanh(b_o), which forward() then returns for
\* every input.  The genome is its segment 0, the other segments being zero.
\* `id as u16` keeps the low 16 bits of the index.
FounderOrganism(id, nn) ==
    [ id |-> id % (U16Max + 1), stable_id |-> id, generation |-> 0, age_steps |-> 0,
      alive |-> TRUE, boundary_integrity |-> One,
      metabolic_state |-> DefaultMetabolicState,
      genome |-> nn, ancestor_genome |-> nn, nn |-> nn,
      agent_ids |-> <<>>, maturity |-> One, parent_stable_id |-> <<>> ]

\* `for agent in &agents { organisms[agent.organism_id].agent_ids.push(agent.id) }`
RECURSIVE PushAgentIds(_, _)
PushAgentIds(orgs, ags) ==
    IF ags = <<>> THEN orgs
    ELSE LET a == Head(ags)
             i == a.organism_id + 1
         IN  PushAgentIds(
                 [orgs EXCEPT ![i].agent_ids = Append(@, a.id)], Tail(ags))

\* ResourceField::new(world_size, 1.0, 1.0): cells of side 1.0 (4 units), each
\* holding 1.0.
CellSize == 4

FieldWidth(world_size) == (world_size + CellSize - 1) \div CellSize

ResourceFieldNew(world_size) ==
    LET w == FieldWidth(world_size)
    IN  [c \in (0 .. w - 1) \X (0 .. w - 1) |-> One]

MaxOf(S) == CHOOSE m \in S : \A x \in S : x <= m

\* `max_agent_id.saturating_add(1)` on u32
SaturatingSucc(n) == IF n >= U32Max THEN U32Max ELSE n + 1

\* The Ok branch of World::try_new.
WorldNew(agents_in, nns, c) ==
    /\ config = c
    /\ agents = agents_in
    /\ organisms =
          PushAgentIds([i \in 1 .. Len(nns) |-> FounderOrganism(i - 1, nns[i])],
                       agents_in)
    /\ resource_field = ResourceFieldNew(c.world_size)
    /\ org_toroidal_sums = [i \in 1 .. Len(nns) |-> <<>>]
    /\ org_counts = [i \in 1 .. Len(nns) |-> 0]
    /\ next_agent_id =
          SaturatingSucc(IF agents_in = <<>> THEN 0
                         ELSE MaxOf({agents_in[k].id : k \in DOMAIN agents_in}))
    /\ step_index = 0
    /\ births_last_step = 0
    /\ deaths_last_step = 0
    /\ total_births = 0
    /\ total_deaths = 0
    /\ next_organism_stable_id = Len(nns)
    /\ agent_id_exhaustions_last_step = 0
    /\ total_agent_id_exhaustions = 0
    /\ lifespans = <<>>
    /\ lineage_events = <<>>
    /\ current_resource_rate = c.resource_regeneration_rate
    /\ pc = "idle"
    /\ locals = NoLocals
    /\ exp = NoExp
    /\ ever_agent_ids = {agents_in[k].id : k \in DOMAIN agents_in}
    /\ ever_stable_ids = 0 .. Len(nns) - 1
    /\ call = NoCall

\* ------------------------------------------------------ World::step, opening
\* `organisms.get(i).map(|o| o.alive).unwrap_or(false)`
AliveAt(orgs, i) == i + 1 \in DOMAIN orgs /\ At(orgs, i).alive

\* DevelopmentalProgram::stage_factors(maturity): one rising factor for
\* boundary, sensing and metabolic efficiency, 1.0 at full maturity.
StageFactor(maturity) == (One + maturity) \div 2

\* DevelopmentalProgram::maturation_rate_modifier of a zero segment 3.
MaturationRateModifier == One

\* World::effective_sensing_radius
EffectiveSensingRadius(org, c) ==
    LET dev_sensing == IF c.enable_growth THEN StageFactor(org.maturity)
                       ELSE One
    IN  FMul(c.sensing_radius, dev_sensing)

\* Toroidal distance along one axis.
ToroidalDelta(a, b, world_size) ==
    LET d == Abs(a - b)
    IN  IF 2 * d > world_size THEN world_size - d ELSE d

\* spatial::count_neighbors over the index of the agents of live organisms:
\* the indexed agents other than self_id within the (clamped) radius.
CountNeighbors(ags, orgs, center, radius, self_id, world_size) ==
    LET r == Min(radius, world_size \div 2)
    IN  Cardinality(
          { k \in DOMAIN ags :
              /\ AliveAt(orgs, ags[k].organism_id)
              /\ ags[k].id # self_id
              /\ LET dx == ToroidalDelta(ags[k].position[1], center[1], world_size)
                     dy == ToroidalDelta(ags[k].position[2], center[2], world_size)
                 IN  dx * dx + dy * dy <= r * r })

\* NeuralNet::forward for a network whose weights are zero: the tanh of its
\* output biases, whatever the input; the tuple nn holds these four outputs.
Forward(nn, input) == nn

\* World::step_nn_query_phase, one agent: its delta and its neighbour count
\* (zero delta and no count for an agent of a dead organism).
NnQueryAgent(a, ags, orgs, c) ==
    IF ~AliveAt(orgs, a.organism_id)
    THEN [ delta |-> <<0, 0, 0, 0>>, counted |-> FALSE, neighbors |-> 0 ]
    ELSE LET org == At(orgs, a.organism_id)
             n == CountNeighbors(ags, orgs, a.position,
                                 EffectiveSensingRadius(org, c), a.id,
                                 c.world_size)
         IN  [ delta |-> Forward(org.nn, <<a.position, a.velocity,
                                            a.internal_state, n>>),
               counted |-> TRUE, neighbors |-> n ]

\* Sum of f(k) over the agents k (positions in the Vec) of organism index i.
RECURSIVE SumOver(_, _, _)
SumOver(ks, f, acc) ==
    IF ks = {} THEN acc
    ELSE LET k == CHOOSE x \in ks : TRUE
         IN  SumOver(ks \ {k}, f, acc + f[k])

\* World::step up to and including the nn query (lines 548-563): the step
\* counter, the per-step counters, the spatial index and the deltas.
StepOpen ==
    LET q == [k \in DOMAIN agents |->
                 NnQueryAgent(agents[k], agents, organisms, config)]
        mine(i) == {k \in DOMAIN agents :
                       agents[k].organism_id = i - 1 /\ q[k].counted}
    IN  /\ step_index' = step_index + 1
        /\ births_last_step' = 0
        /\ deaths_last_step' = 0
        /\ agent_id_exhaustions_last_step' = 0
        /\ locals' =
              [ NoLocals EXCEPT
                  !.deltas = [k \in DOMAIN agents |-> q[k].delta],
                  !.neighbor_sums =
                      [i \in DOMAIN organisms |->
                          SumOver(mine(i), [k \in DOMAIN agents |-> q[k].neighbors], 0)],
                  !.neighbor_counts =
                      [i \in DOMAIN organisms |-> Cardinality(mine(i))] ]
        /\ pc' = "state"
        /\ UNCHANGED << call, config, agents, organisms, resource_field,
                        org_toroidal_sums, org_counts, next_agent_id,
                        total_births, total_deaths, next_organism_stable_id,
                        total_agent_id_exhaustions, lifespans, lineage_events,
                        current_resource_rate, ever_agent_ids, ever_stable_ids >>

\* -------------------------------------------------- step_agent_state_phase
\* Smallest n with n * n >= x: the magnitude of sqrt, rounded up.
RECURSIVE SqrtFrom(_, _)
SqrtFrom(x, n) == IF n * n >= x THEN n ELSE SqrtFrom(x, n + 1)

Sqrt(x) == SqrtFrom(x, 0)

\* Integer quotient rounded toward zero.
Quot(a, b) == IF a >= 0 THEN a \div b ELSE -((-a) \div b)

\* x * dt for the f64 (coordinate) quantities; dt is in whole units.
TimesDt(x, c) == RoundF(x * c.dt)

\* `if speed_sq > max_speed * max_speed { velocity *= max_speed / speed_sq.sqrt() }`
ClampSpeed(v, max_speed) ==
    LET speed_sq == v[1] * v[1] + v[2] * v[2]
    IN  IF speed_sq > max_speed * max_speed
        THEN << Quot(v[1] * max_speed, Sqrt(speed_sq)),
                Quot(v[2] * max_speed, Sqrt(speed_sq)) >>
        ELSE v

\* `(position + velocity * dt).rem_euclid(world_size)` on one axis
WrapPosition(x, world_size) == RemEuclid(x, world_size)

MovePosition(x, v, c) == WrapPosition(RoundF(x + TimesDt(v, c)), c.world_size)

\* A pool update that leaves the sum as it comes.
ClampStateOpen(x) == x

\* `(s - h_decay).max(0.0)`, then with homeostasis
\* `(s + delta * dt).clamp(0.0, 1.0)`.
ClampState(x) == Clamp(x, 0, One)

UpdatePool(s, delta, c) ==
    LET h_decay == c.homeostasis_decay_rate * c.dt
        decayed == Max(s - h_decay, 0)
    IN  IF c.enable_homeostasis THEN ClampState(decayed + delta * c.dt)
        ELSE decayed

\* A loop body that leaves internal_state[2] as it finds it.
StateAgentBoundaryUnexposed(a, delta, orgs, c) ==
    IF ~At(orgs, a.organism_id).alive
    THEN [a EXCEPT !.velocity = <<0, 0>>]
    ELSE LET v0 == IF c.enable_response
                   THEN << RoundF(a.velocity[1] + TimesDt(delta[1], c)),
                           RoundF(a.velocity[2] + TimesDt(delta[2], c)) >>
                   ELSE a.velocity
             v  == ClampSpeed(v0, c.max_speed)
         IN  [a EXCEPT
                !.internal_state =
                    << UpdatePool(a.internal_state[1], delta[3], c),
                       UpdatePool(a.internal_state[2], delta[4], c),
                       a.internal_state[3],
                       a.internal_state[4] >>,
                !.velocity = v,
                !.position = << MovePosition(a.position[1], v[1], c),
                                MovePosition(a.position[2], v[2], c) >>]

\* The loop body of step_agent_state_phase for one agent (lines 296-332).
\* A state phase that treats the agents of a dead organism like all others.
StateAgentMovesDead(a, delta, orgs, c) ==
    LET v0 == IF c.enable_response
              THEN << RoundF(a.velocity[1] + TimesDt(delta[1], c)),
                      RoundF(a.velocity[2] + TimesDt(delta[2], c)) >>
              ELSE a.velocity
        v  == ClampSpeed(v0, c.max_speed)
    IN  [a EXCEPT
           !.internal_state =
               << UpdatePool(a.internal_state[1], delta[3], c),
                  UpdatePool(a.internal_state[2], delta[4], c),
                  At(orgs, a.organism_id).boundary_integrity,
                  a.internal_state[4] >>,
           !.velocity = v,
           !.position = << MovePosition(a.position[1], v[1], c),
                           MovePosition(a.position[2], v[2], c) >>]

StateAgent(a, delta, orgs, c) ==
    IF ~At(orgs, a.organism_id).alive
    THEN [a EXCEPT !.velocity = <<0, 0>>]
    ELSE LET v0 == IF c.enable_response
                   THEN << RoundF(a.velocity[1] + TimesDt(delta[1], c)),
                           RoundF(a.velocity[2] + TimesDt(delta[2], c)) >>
                   ELSE a.velocity
             v  == ClampSpeed(v0, c.max_speed)
         IN  [a EXCEPT
                !.internal_state =
                    << UpdatePool(a.internal_state[1], delta[3], c),
                       UpdatePool(a.internal_state[2], delta[4], c),
                       At(orgs, a.organism_id).boundary_integrity,
                       a.internal_state[4] >>,
                !.velocity = v,
                !.position = << MovePosition(a.position[1], v[1], c),
                                MovePosition(a.position[2], v[2], c) >>]

\* The positions, in agent order, of the agents of organism index i that the
\* phase summed (those of live organisms).
RECURSIVE PositionsOf(_, _, _)
PositionsOf(ags, orgs, i) ==
    IF ags = <<>> THEN <<>>
    ELSE IF Head(ags).organism_id = i /\ At(orgs, i).alive
         THEN <<Head(ags).position>> \o PositionsOf(Tail(ags), orgs, i)
         ELSE PositionsOf(Tail(ags), orgs, i)

StepAgentStatePhase ==
    LET new == [k \in DOMAIN agents |->
                   StateAgent(agents[k], locals.deltas[k], organisms, config)]
        mine(i) == {k \in DOMAIN new :
                       new[k].organism_id = i - 1 /\ organisms[i].alive}
    IN  /\ pc = "state"
        /\ agents' = new
        /\ org_toroidal_sums' =
              [i \in DOMAIN organisms |-> PositionsOf(new, organisms, i - 1)]
        /\ org_counts' = [i \in DOMAIN organisms |-> Cardinality(mine(i))]
        /\ locals' =
              [ locals EXCEPT
                  !.homeostasis_sums =
                      [i \in DOMAIN organisms |->
                          SumOver(mine(i),
                                  [k \in DOMAIN new |-> new[k].internal_state[1]], 0)],
                  !.homeostasis_counts =
                      [i \in DOMAIN organisms |-> Cardinality(mine(i))] ]
        /\ pc' = "boundary"
        /\ UNCHANGED << call, config, organisms, resource_field, next_agent_id,
                        step_index, births_last_step, deaths_last_step,
                        total_births, total_deaths, next_organism_stable_id,
                        agent_id_exhaustions_last_step,
                        total_agent_id_exhaustions, lifespans, lineage_events,
                        current_resource_rate, exp, ever_agent_ids,
                        ever_stable_ids >>

\* --------------------------------------------------------------- mark_dead
\* A mark_dead that does not look at the alive flag.
MarkDeadUnguarded(w, org_idx) ==
    IF org_idx + 1 \in DOMAIN w.organisms
    THEN [ w EXCEPT
             !.lifespans = Append(@, At(w.organisms, org_idx).age_steps),
             !.organisms[org_idx + 1].alive = FALSE,
             !.organisms[org_idx + 1].boundary_integrity = 0,
             !.deaths_last_step = @ + 1,
             !.total_deaths = @ + 1 ]
    ELSE w

\* World::mark_dead on the organisms, lifespans and death counters, gathered
\* in one record w.
MarkDead(w, org_idx) ==
    IF org_idx + 1 \in DOMAIN w.organisms /\ At(w.organisms, org_idx).alive
    THEN [ w EXCEPT
             !.lifespans = Append(@, At(w.organisms, org_idx).age_steps),
             !.organisms[org_idx + 1].alive = FALSE,
             !.organisms[org_idx + 1].boundary_integrity = 0,
             !.deaths_last_step = @ + 1,
             !.total_deaths = @ + 1 ]
    ELSE w

\* `for org_idx in to_kill { self.mark_dead(org_idx) }`
RECURSIVE KillAll(_, _)
KillAll(w, to_kill) ==
    IF to_kill = <<>> THEN w
    ELSE KillAll(MarkDead(w, Head(to_kill)), Tail(to_kill))

\* The part of the world mark_dead works on.
DeathView ==
    [ organisms |-> organisms, lifespans |-> lifespans,
      deaths_last_step |-> deaths_last_step, total_deaths |-> total_deaths ]

\* self.terminal_boundary_threshold()
TerminalBoundaryThreshold(c) ==
    Max(c.boundary_collapse_threshold, c.death_boundary_threshold)

\* ------------------------------------------------------ step_boundary_phase
\* `.clamp(0.0, 1.0)` of a boundary integrity.
ClampBoundary(x) == Clamp(x, 0, One)

\* A boundary phase that restores a dead organism instead of skipping it.
DeadOrgBoundaryRestored(org) ==
    [org EXCEPT !.boundary_integrity = One, !.alive = TRUE]

\* The branch for an organism that is already dead (lines 362-365).
DeadOrgBoundary(org) == [org EXCEPT !.boundary_integrity = 0]

\* The loop body for a live organism (lines 367-392).
LiveOrgBoundary(org, h_sum, h_count, c) ==
    LET energy == org.metabolic_state.energy
        waste == org.metabolic_state.waste
        energy_deficit == Max(c.metabolic_viability_floor - energy, 0)
        decay == c.boundary_decay_base_rate
                 + FMul(c.boundary_decay_energy_scale,
                        energy_deficit
                          + FMul(waste, c.boundary_waste_pressure_scale))
        homeostasis_factor == IF h_count > 0 THEN h_sum \div h_count
                              ELSE One \div 2
        dev_boundary == IF c.enable_growth THEN StageFactor(org.maturity)
                        ELSE One
        repair == FMul(FMul(FMul(
                      Max(energy
                            - FMul(FMul(waste, c.boundary_waste_pressure_scale),
                                   c.boundary_repair_waste_penalty_scale), 0),
                      c.boundary_repair_rate), homeostasis_factor), dev_boundary)
    IN  [org EXCEPT !.boundary_integrity =
            ClampBoundary(@ - decay * c.dt + repair * c.dt)]

BoundaryOrg(org, h_sum, h_count, c) ==
    IF ~org.alive THEN DeadOrgBoundary(org)
    ELSE LiveOrgBoundary(org, h_sum, h_count, c)

\* Indices i (of the code, from 0) of the organisms of orgs in s that satisfy
\* Kill, in increasing order: the to_kill list of a phase.
RECURSIVE ToKill(_, _, _)
ToKill(orgs, kill, i) ==
    IF i >= Len(orgs) THEN <<>>
    ELSE IF kill[i + 1] THEN <<i>> \o ToKill(orgs, kill, i + 1)
    ELSE ToKill(orgs, kill, i + 1)

StepBoundaryPhase ==
    /\ pc = "boundary"
    /\ pc' = "metabolism"
    /\ IF ~config.enable_boundary_maintenance
       THEN UNCHANGED << organisms, lifespans, deaths_last_step, total_deaths >>
       ELSE LET threshold == TerminalBoundaryThreshold(config)
                upd == [i \in DOMAIN organisms |->
                           BoundaryOrg(organisms[i], locals.homeostasis_sums[i],
                                       locals.homeostasis_counts[i], config)]
                kill == [i \in DOMAIN organisms |->
                            organisms[i].alive
                            /\ upd[i].boundary_integrity <= threshold]
                w == KillAll([DeathView EXCEPT !.organisms = upd],
                             ToKill(upd, kill, 0))
            IN  /\ organisms' = w.organisms
                /\ lifespans' = w.lifespans
                /\ deaths_last_step' = w.deaths_last_step
                /\ total_deaths' = w.total_deaths
    /\ UNCHANGED << call, config, agents, resource_field, org_toroidal_sums,
                    org_counts, next_agent_id, step_index, births_last_step,
                    total_births, next_organism_stable_id,
                    agent_id_exhaustions_last_step, total_agent_id_exhaustions,
                    lineage_events, current_resource_rate, locals, exp,
                    ever_agent_ids, ever_stable_ids >>

\* ---------------------------------------------------- step_metabolism_phase
\* Caps that keep energy and waste in a finite range.
MaxEnergy == 4

MaxWaste == 1

\* World::toroidal_mean_coord of the positions summed for an organism, one
\* axis: the mean direction of one agent, or of agents at one place, is that
\* place; otherwise the mean along the arc that starts at the first agent.
RECURSIVE ArcSum(_, _, _)
ArcSum(xs, first, world_size) ==
    IF xs = <<>> THEN 0
    ELSE LET d == (Head(xs) - first) % world_size
             signed == IF 2 * d > world_size THEN d - world_size ELSE d
         IN  signed + ArcSum(Tail(xs), first, world_size)

ToroidalMeanCoord(xs, world_size) ==
    IF \A k \in DOMAIN xs : xs[k] = xs[1] THEN xs[1]
    ELSE RoundF((xs[1] + Quot(ArcSum(xs, xs[1], world_size), Len(xs)))
                  % world_size)

\* The center the metabolism phase uses: from the sums when the organism had
\* agents in the state phase, else the origin.
CenterOf(sums, count, world_size) ==
    IF count > 0
    THEN << ToroidalMeanCoord([k \in DOMAIN sums |-> sums[k][1]], world_size),
            ToroidalMeanCoord([k \in DOMAIN sums |-> sums[k][2]], world_size) >>
    ELSE <<0, 0>>

\* The cell of a point: `((x / cell_size) as usize).min(width - 1)`.
CellOf(pos, field) ==
    LET w == Sqrt(Cardinality(DOMAIN field))
    IN  << Min(pos[1] \div CellSize, w - 1), Min(pos[2] \div CellSize, w - 1) >>

\* ResourceField::get
FieldGet(field, pos) == field[CellOf(pos, field)]

\* ResourceField::take: the cell loses min(amount, cell value).
FieldTake(field, pos, amount) ==
    [field EXCEPT ![CellOf(pos, field)] = @ - Min(amount, @)]

\* What one call of MetabolismEngine::step may do to (energy, waste) and ask
\* from the field: lose energy and gain waste, or (with resource at
\* hand) gain energy and consume.
EngineOutcomes(external) ==
    {"starve"} \cup (IF external > 0 THEN {"feed"} ELSE {})

EngineStep(state, outcome) ==
    CASE outcome = "starve" ->
           [ state |-> [ energy |-> Max(state.energy - 1, 0),
                         waste |-> Min(state.waste + 1, MaxWaste) ],
             consumed_external |-> 0 ]
      [] outcome = "feed" ->
           [ state |-> [ state EXCEPT !.energy = Min(@ + One, MaxEnergy) ],
             consumed_external |-> 1 ]

\* The factor applied to a positive energy delta (lines 436-441).
GrowthFactor(org, c) ==
    IF c.enable_growth THEN StageFactor(org.maturity)
    ELSE c.growth_immature_metabolic_efficiency
         + FMul(org.maturity, One - c.growth_immature_metabolic_efficiency)

\* The loop body for one live organism (lines 414-449): its new metabolic
\* state and the field after its take.
MetabolizeOrg(org, center, field, outcome, c) ==
    LET pre_energy == org.metabolic_state.energy
        flux == EngineStep(org.metabolic_state, outcome)
        energy_delta == flux.state.energy - pre_energy
        energy == IF energy_delta > 0
                  THEN pre_energy
                       + FMul(FMul(energy_delta, GrowthFactor(org, c)),
                              c.metabolism_efficiency_multiplier)
                  ELSE flux.state.energy
    IN  [ org |-> [org EXCEPT !.metabolic_state =
                      [flux.state EXCEPT !.energy = energy]],
          field |-> IF flux.consumed_external > 0
                    THEN FieldTake(field, center, flux.consumed_external)
                    ELSE field ]

\* The loop over the organisms from index i on: w holds the organisms and the
\* field so far, and the to_kill list.  The engine outcome of each live
\* organism is any outcome the engine allows.
RECURSIVE MetabolismRuns(_, _)
MetabolismRuns(w, i) ==
    IF i > Len(w.organisms) THEN {w}
    ELSE LET org == w.organisms[i]
         IN  IF ~org.alive THEN MetabolismRuns(w, i + 1)
             ELSE LET center == CenterOf(org_toroidal_sums[i], org_counts[i],
                                         config.world_size)
                  IN  UNION {
                        LET r == MetabolizeOrg(org, center, w.field, o, config)
                            dies ==
                              \/ r.org.metabolic_state.energy
                                    <= config.death_energy_threshold
                              \/ r.org.boundary_integrity
                                    <= TerminalBoundaryThreshold(config)
                        IN  MetabolismRuns(
                              [ organisms |-> [w.organisms EXCEPT ![i] = r.org],
                                field |-> r.field,
                                to_kill |-> IF dies THEN Append(w.to_kill, i - 1)
                                            ELSE w.to_kill ], i + 1)
                        : o \in EngineOutcomes(FieldGet(w.field, center)) }

StepMetabolismPhase ==
    /\ pc = "metabolism"
    /\ pc' = "growth"
    /\ IF ~config.enable_metabolism
       THEN UNCHANGED << organisms, resource_field, lifespans,
                         deaths_last_step, total_deaths >>
       ELSE \E run \in MetabolismRuns(
                  [ organisms |-> organisms, field |-> resource_field,
                    to_kill |-> <<>> ], 1) :
              LET w == KillAll([DeathView EXCEPT !.organisms = run.organisms],
                               run.to_kill)
              IN  /\ organisms' = w.organisms
                  /\ resource_field' = run.field
                  /\ lifespans' = w.lifespans
                  /\ deaths_last_step' = w.deaths_last_step
                  /\ total_deaths' = w.total_deaths
    /\ UNCHANGED << call, config, agents, org_toroidal_sums, org_counts,
                    next_agent_id, step_index, births_last_step, total_births,
                    next_organism_stable_id, agent_id_exhaustions_last_step,
                    total_agent_id_exhaustions, lineage_events,
                    current_resource_rate, locals, exp, ever_agent_ids,
                    ever_stable_ids >>

\* ------------------------------------------- step_growth_and_crowding_phase
\* A growth phase that compares the age with the maximum before it counts
\* the step.
GrowOrgAgeCheckedFirst(org, n_sum, n_count, c) ==
    LET aged == [org EXCEPT !.age_steps = @ + 1]
    IN  IF org.age_steps > c.max_organism_age_steps
        THEN [ org |-> aged, kill |-> TRUE ]
        ELSE LET rate == FMul(One \div c.growth_maturation_steps,
                              MaturationRateModifier)
                 grown == IF c.enable_growth /\ aged.maturity < One
                          THEN [aged EXCEPT !.maturity = Min(@ + rate, One)]
                          ELSE aged
                 avg_neighbors == IF n_count > 0 THEN (n_sum * One) \div n_count
                                  ELSE 0
                 crowded ==
                    IF avg_neighbors > c.crowding_neighbor_threshold
                    THEN [grown EXCEPT !.boundary_integrity =
                            ClampBoundary(@ - FMul(avg_neighbors
                                                     - c.crowding_neighbor_threshold,
                                                   c.crowding_boundary_decay) * c.dt)]
                    ELSE grown
             IN  [ org |-> crowded,
                   kill |-> crowded.boundary_integrity
                              <= TerminalBoundaryThreshold(c) ]

\* A growth phase that ages an organism without letting it mature.
GrowOrgUngrown(org, n_sum, n_count, c) ==
    LET aged == [org EXCEPT !.age_steps = @ + 1]
    IN  IF aged.age_steps > c.max_organism_age_steps
        THEN [ org |-> aged, kill |-> TRUE ]
        ELSE LET avg_neighbors == IF n_count > 0 THEN (n_sum * One) \div n_count
                                  ELSE 0
                 crowded ==
                    IF avg_neighbors > c.crowding_neighbor_threshold
                    THEN [aged EXCEPT !.boundary_integrity =
                            ClampBoundary(@ - FMul(avg_neighbors
                                                     - c.crowding_neighbor_threshold,
                                                   c.crowding_boundary_decay) * c.dt)]
                    ELSE aged
             IN  [ org |-> crowded,
                   kill |-> crowded.boundary_integrity
                              <= TerminalBoundaryThreshold(c) ]

\* The loop body for one live organism (lines 474-496): the organism after
\* the phase, and whether it goes on the kill list.
GrowOrg(org, n_sum, n_count, c) ==
    LET aged == [org EXCEPT !.age_steps = @ + 1]
    IN  IF aged.age_steps > c.max_organism_age_steps
        THEN [ org |-> aged, kill |-> TRUE ]
        ELSE LET rate == FMul(One \div c.growth_maturation_steps,
                              MaturationRateModifier)
                 grown == IF c.enable_growth /\ aged.maturity < One
                          THEN [aged EXCEPT !.maturity = Min(@ + rate, One)]
                          ELSE aged
                 avg_neighbors == IF n_count > 0 THEN (n_sum * One) \div n_count
                                  ELSE 0
                 crowded ==
                    IF avg_neighbors > c.crowding_neighbor_threshold
                    THEN [grown EXCEPT !.boundary_integrity =
                            ClampBoundary(@ - FMul(avg_neighbors
                                                     - c.crowding_neighbor_threshold,
                                                   c.crowding_boundary_decay) * c.dt)]
                    ELSE grown
             IN  [ org |-> crowded,
                   kill |-> crowded.boundary_integrity
                              <= TerminalBoundaryThreshold(c) ]

\* A growth phase that does not skip the organisms that are already dead.
StepGrowthAgesDead ==
    LET g == [i \in DOMAIN organisms |->
                 GrowOrg(organisms[i], locals.neighbor_sums[i],
                         locals.neighbor_counts[i], config)]
        upd == [i \in DOMAIN organisms |-> g[i].org]
        w == KillAll([DeathView EXCEPT !.organisms = upd],
                     ToKill(upd, [i \in DOMAIN organisms |-> g[i].kill], 0))
    IN  /\ pc = "growth"
        /\ pc' = "reproduce"
        /\ organisms' = w.organisms
        /\ lifespans' = w.lifespans
        /\ deaths_last_step' = w.deaths_last_step
        /\ total_deaths' = w.total_deaths
        /\ UNCHANGED << call, config, agents, resource_field, org_toroidal_sums,
                        org_counts, next_agent_id, step_index,
                        births_last_step, total_births,
                        next_organism_stable_id,
                        agent_id_exhaustions_last_step,
                        total_agent_id_exhaustions, lineage_events,
                        current_resource_rate, locals, exp, ever_agent_ids,
                        ever_stable_ids >>

StepGrowthAndCrowdingPhase ==
    LET g == [i \in DOMAIN organisms |->
                 IF organisms[i].alive
                 THEN GrowOrg(organisms[i], locals.neighbor_sums[i],
                              locals.neighbor_counts[i], config)
                 ELSE [ org |-> organisms[i], kill |-> FALSE ]]
        upd == [i \in DOMAIN organisms |-> g[i].org]
        w == KillAll([DeathView EXCEPT !.organisms = upd],
                     ToKill(upd, [i \in DOMAIN organisms |-> g[i].kill], 0))
    IN  /\ pc = "growth"
        /\ pc' = "reproduce"
        /\ organisms' = w.organisms
        /\ lifespans' = w.lifespans
        /\ deaths_last_step' = w.deaths_last_step
        /\ total_deaths' = w.total_deaths
        /\ UNCHANGED << call, config, agents, resource_field, org_toroidal_sums,
                        org_counts, next_agent_id, step_index,
                        births_last_step, total_births,
                        next_organism_stable_id,
                        agent_id_exhaustions_last_step,
                        total_agent_id_exhaustions, lineage_events,
                        current_resource_rate, locals, exp, ever_agent_ids,
                        ever_stable_ids >>

\* ----------------------------------------------------------- maybe_reproduce
\* Genome::mutate (genome.rs 69-86).  For every element a number r in [0, 1)
\* is drawn: r < point_rate moves it by a delta and clamps it, else
\* r < point_rate + reset_rate sets it to 0, else r < ... + scale_rate scales
\* and clamps it, else it is left as it is.  A branch can be drawn when its
\* interval of r is not empty.
PointDrawn(r) == r.point_rate > 0

ResetDrawn(r) == r.reset_rate > 0 /\ r.point_rate < One

ScaleDrawn(r) == r.scale_rate > 0 /\ r.point_rate + r.reset_rate < One

NoneDrawn(r) == r.point_rate + r.reset_rate + r.scale_rate < One

\* `(*v + delta).clamp(-rates.value_limit, rates.value_limit)`
PointMutated(v, delta, r) == Clamp(v + delta, -r.value_limit, r.value_limit)

\* What an element v can become without a non-zero point delta.
QuietValues(v, r) ==
    (IF NoneDrawn(r) THEN {v} ELSE {})
    \cup (IF PointDrawn(r) THEN {PointMutated(v, 0, r)} ELSE {})
    \cup (IF ResetDrawn(r) THEN {0} ELSE {})
    \cup (IF ScaleDrawn(r)
          THEN {Clamp(FMul(v, f), -r.value_limit, r.value_limit) :
                   f \in r.scale_min .. r.scale_max}
          ELSE {})

\* What an element v can become by a non-zero point delta.
MovedValues(v, r) ==
    IF PointDrawn(r)
    THEN {PointMutated(v, d, r) : d \in ((-r.point_scale) .. r.point_scale) \ {0}}
    ELSE {}

MutatedValues(v, r) == QuietValues(v, r) \cup MovedValues(v, r)

\* At most so many elements get a non-zero point delta in one call of mutate.
MaxPointHits == 1

\* The loop of mutate over data, with `hits` non-zero point deltas left.
RECURSIVE MutateFrom(_, _, _)
MutateFrom(data, r, hits) ==
    IF data = <<>> THEN {<<>>}
    ELSE { <<v>> \o rest : v \in QuietValues(Head(data), r),
                           rest \in MutateFrom(Tail(data), r, hits) }
         \cup (IF hits = 0 THEN {}
               ELSE { <<v>> \o rest : v \in MovedValues(Head(data), r),
                                      rest \in MutateFrom(Tail(data), r, hits - 1) })

Mutate(genome, r) == MutateFrom(genome, r, MaxPointHits)

\* World::mutation_rates_from_config for the rates of this model.
MutationRates ==
    [ point_rate |-> 1, point_scale |-> 1, reset_rate |-> 1, scale_rate |-> 0,
      scale_min |-> One, scale_max |-> One, value_limit |-> One ]

\* World::compute_organism_centers: the toroidal center of every live
\* organism that has agents (None, here <<>>, otherwise).
OrganismCenters(ags, orgs, world_size) ==
    [i \in DOMAIN orgs |->
        LET ps == IF orgs[i].alive THEN PositionsOf(ags, orgs, i - 1) ELSE <<>>
        IN  IF ps = <<>> THEN <<>>
            ELSE << CenterOf(ps, Len(ps), world_size) >>]

\* A next_agent_id_checked that hands out the counter without advancing it.
NextAgentIdNotAdvanced(next) ==
    IF next = U32Max THEN [ id |-> <<>>, next |-> next ]
    ELSE [ id |-> <<next>>, next |-> next ]

\* World::next_agent_id_checked on the counter `next`: id is <<>> for None,
\* else <<id>>; next is the counter afterwards.
NextAgentIdChecked(next) ==
    IF next = U32Max THEN [ id |-> <<>>, next |-> next ]
    ELSE [ id |-> <<next>>, next |-> next + 1 ]

\* Points `radius * (cos theta, sin theta)` the two draws of a spawn can give.
SpawnOffsets(spawn_radius) ==
    {o \in ((-spawn_radius) .. spawn_radius) \X ((-spawn_radius) .. spawn_radius) :
        o[1] * o[1] + o[2] * o[2] <= spawn_radius * spawn_radius}

\* `(center + radius * theta.cos()).rem_euclid(world_size)` on one axis
SpawnCoord(center, offset, world_size) ==
    RemEuclid(RoundF(center + offset), world_size)

\* The spawn loop (lines 176-191) with `left` agents still to spawn: every
\* outcome [agents, ids, next] the draws allow.
RECURSIVE SpawnRuns(_, _, _, _, _)
SpawnRuns(sp, left, child_id, center, c) ==
    IF left = 0 THEN {sp}
    ELSE LET checked == NextAgentIdChecked(sp.next)
             got == checked.id
         IN  IF got = <<>> THEN {sp}
             ELSE UNION {
                    LET pos == << SpawnCoord(center[1], o[1], c.world_size),
                                  SpawnCoord(center[2], o[2], c.world_size) >>
                        agent == [AgentNew(got[1], child_id, pos) EXCEPT
                                    !.internal_state[3] = One]
                    IN  SpawnRuns([ agents |-> Append(sp.agents, agent),
                                    ids |-> Append(sp.ids, got[1]),
                                    next |-> checked.next ],
                                  left - 1, child_id, center, c)
                    : o \in SpawnOffsets(c.reproduction_spawn_radius) }

\* A child record that lists none of the agents spawned for it.
ChildOrganismUnlisted(child_id, stable_id, parent, genome, ids, c) ==
    [ id |-> child_id, stable_id |-> stable_id,
      generation |-> parent.generation + 1, age_steps |-> 0, alive |-> TRUE,
      boundary_integrity |-> One,
      metabolic_state |-> [ energy |-> c.reproduction_energy_cost, waste |-> 0 ],
      genome |-> genome, ancestor_genome |-> parent.ancestor_genome,
      nn |-> genome, agent_ids |-> <<>>, maturity |-> 0,
      parent_stable_id |-> <<parent.stable_id>> ]

\* A child record whose ancestor genome is the genome of its parent.
ChildOrganismOfParentGenome(child_id, stable_id, parent, genome, ids, c) ==
    [ id |-> child_id, stable_id |-> stable_id,
      generation |-> parent.generation + 1, age_steps |-> 0, alive |-> TRUE,
      boundary_integrity |-> One,
      metabolic_state |-> [ energy |-> c.reproduction_energy_cost, waste |-> 0 ],
      genome |-> genome, ancestor_genome |-> parent.genome,
      nn |-> genome, agent_ids |-> ids, maturity |-> 0,
      parent_stable_id |-> <<parent.stable_id>> ]

\* The child record (lines 196-221).
ChildOrganism(child_id, stable_id, parent, genome, ids, c) ==
    [ id |-> child_id, stable_id |-> stable_id,
      generation |-> parent.generation + 1, age_steps |-> 0, alive |-> TRUE,
      boundary_integrity |-> One,
      metabolic_state |-> [ energy |-> c.reproduction_energy_cost, waste |-> 0 ],
      genome |-> genome, ancestor_genome |-> parent.ancestor_genome,
      nn |-> genome, agent_ids |-> ids, maturity |-> 0,
      parent_stable_id |-> <<parent.stable_id>> ]

\* `(agents_per_organism / 2).max(reproduction_child_min_agents)`
ChildAgents(c) ==
    Max(c.agents_per_organism \div 2, c.reproduction_child_min_agents)

\* A choice of parents that does not ask for the minimum energy.
ParentIndicesAnyEnergy(orgs, c) ==
    ToKill(orgs,
           [i \in DOMAIN orgs |->
               /\ orgs[i].alive
               /\ orgs[i].boundary_integrity >= c.reproduction_min_boundary
               /\ orgs[i].maturity >= One], 0)

\* The parents of this phase (lines 104-116), as indices from 0 in order.
ParentIndices(orgs, c) ==
    ToKill(orgs,
           [i \in DOMAIN orgs |->
               /\ orgs[i].alive
               /\ orgs[i].metabolic_state.energy >= c.reproduction_min_energy
               /\ orgs[i].boundary_integrity >= c.reproduction_min_boundary
               /\ orgs[i].maturity >= One], 0)

\* A cap test that forgets the agents the child would add.
AgentCapIgnoresChild(n_agents, child_agents) == n_agents > MAX_TOTAL_AGENTS

\* `agents.len().checked_add(child_agents).map(|n| n > MAX_TOTAL_AGENTS)`
AgentCapReached(n_agents, child_agents) ==
    n_agents + child_agents > MAX_TOTAL_AGENTS

\* A child named after its index in the organism array.
ChildStableIdFromIndex(w) == Len(w.organisms)

\* `let child_stable_id = self.next_organism_stable_id`
ChildStableId(w) == w.next_organism_stable_id

\* An index test that lets every index through.
ChildIdAlwaysFits(n) == TRUE

\* `u16::try_from(self.organisms.len())` is Ok (lines 170-173).
ChildIdFits(n) == n <= U16Max

\* The part of the world maybe_reproduce works on.
BirthView ==
    [ agents |-> agents, organisms |-> organisms,
      org_toroidal_sums |-> org_toroidal_sums, org_counts |-> org_counts,
      next_agent_id |-> next_agent_id,
      next_organism_stable_id |-> next_organism_stable_id,
      lineage_events |-> lineage_events,
      births_last_step |-> births_last_step, total_births |-> total_births,
      agent_id_exhaustions_last_step |-> agent_id_exhaustions_last_step,
      total_agent_id_exhaustions |-> total_agent_id_exhaustions ]

\* The loop over the parents (lines 122-234): every world the draws allow.
RECURSIVE ReproduceRuns(_, _, _, _)
ReproduceRuns(w, parents, centers, c) ==
    IF parents = <<>> THEN {w}
    ELSE
      LET parent_idx == Head(parents)
          parent == At(w.organisms, parent_idx)
          child_agents == ChildAgents(c)
          remaining_ids == U32Max - w.next_agent_id
          center == IF At(centers, parent_idx) = <<>> THEN <<0, 0>>
                    ELSE At(centers, parent_idx)[1]
      IN  IF AgentCapReached(Len(w.agents), child_agents) THEN {w}
          ELSE IF remaining_ids + 1 < child_agents
          THEN {[ w EXCEPT !.agent_id_exhaustions_last_step = @ + 1,
                           !.total_agent_id_exhaustions = @ + 1 ]}
          ELSE IF ~parent.alive
                  \/ parent.metabolic_state.energy < c.reproduction_energy_cost
          THEN ReproduceRuns(w, Tail(parents), centers, c)
          ELSE
            LET paid == [ w EXCEPT
                            !.organisms[parent_idx + 1].metabolic_state.energy =
                                @ - c.reproduction_energy_cost ]
                child_id == Len(w.organisms)
            IN  IF ~ChildIdFits(child_id) THEN {paid}
                ELSE UNION {
                  UNION {
                    IF sp.ids = <<>> THEN {[paid EXCEPT !.agents = sp.agents]}
                    ELSE
                      LET child_stable_id == ChildStableId(paid)
                          child == ChildOrganism(child_id, child_stable_id,
                                                 parent, genome, sp.ids, c)
                      IN  ReproduceRuns(
                            [ paid EXCEPT
                                !.agents = sp.agents,
                                !.next_agent_id = sp.next,
                                !.next_organism_stable_id = @ + 1,
                                !.lineage_events =
                                    Append(@, [ step |-> step_index,
                                                parent_stable_id |-> parent.stable_id,
                                                child_stable_id |-> child_stable_id,
                                                generation |-> child.generation ]),
                                !.organisms = Append(@, child),
                                !.org_toroidal_sums = Append(@, <<>>),
                                !.org_counts = Append(@, 0),
                                !.births_last_step = @ + 1,
                                !.total_births = @ + 1 ],
                            Tail(parents), centers, c)
                    : sp \in SpawnRuns([ agents |-> paid.agents, ids |-> <<>>,
                                         next |-> paid.next_agent_id ],
                                       child_agents, child_id, center, c) }
                  : genome \in IF c.enable_evolution
                               THEN Mutate(parent.genome, MutationRates)
                               ELSE {parent.genome} }

MaybeReproduce ==
    LET parents == ParentIndices(organisms, config)
    IN  IF parents = <<>> THEN {BirthView}
        ELSE ReproduceRuns(BirthView, parents,
                           OrganismCenters(agents, organisms, config.world_size),
                           config)

StepReproducePhase ==
    /\ pc = "reproduce"
    /\ pc' = "compact"
    /\ \E w \in (IF config.enable_reproduction THEN MaybeReproduce
                 ELSE {BirthView}) :
          /\ agents' = w.agents
          /\ organisms' = w.organisms
          /\ org_toroidal_sums' = w.org_toroidal_sums
          /\ org_counts' = w.org_counts
          /\ next_agent_id' = w.next_agent_id
          /\ next_organism_stable_id' = w.next_organism_stable_id
          /\ lineage_events' = w.lineage_events
          /\ births_last_step' = w.births_last_step
          /\ total_births' = w.total_births
          /\ agent_id_exhaustions_last_step' = w.agent_id_exhaustions_last_step
          /\ total_agent_id_exhaustions' = w.total_agent_id_exhaustions
          /\ ever_agent_ids' =
                ever_agent_ids \cup {w.agents[k].id : k \in DOMAIN w.agents}
          /\ ever_stable_ids' =
                ever_stable_ids
                  \cup {w.organisms[i].stable_id : i \in DOMAIN w.organisms}
    /\ UNCHANGED << call, config, resource_field, step_index, deaths_last_step,
                    total_deaths, lifespans, current_resource_rate, locals,
                    exp >>

\* ------------------------------------------------------ prune_dead_entities
\* A remap that numbers the survivors from the far end of the array.
RemapFromEnd(orgs) ==
    [i \in DOMAIN orgs |->
        IF orgs[i].alive
        THEN << Cardinality({j \in i + 1 .. Len(orgs) : orgs[j].alive}) >>
        ELSE <<>>]

\* remap[old_idx]: <<new_id>> for a survivor, <<>> (None) for a dead organism.
Remap(orgs) ==
    [i \in DOMAIN orgs |->
        IF orgs[i].alive
        THEN << Cardinality({j \in 1 .. i - 1 : orgs[j].alive}) >>
        ELSE <<>>]

\* ids of the agents of organism index i, in agent order
RECURSIVE AgentIdsOf(_, _)
AgentIdsOf(ags, i) ==
    IF ags = <<>> THEN <<>>
    ELSE IF Head(ags).organism_id = i
         THEN <<Head(ags).id>> \o AgentIdsOf(Tail(ags), i)
         ELSE AgentIdsOf(Tail(ags), i)

\* A compaction that starts the age of every survivor afresh.
RECURSIVE SurvivorsAgeReset(_, _)
SurvivorsAgeReset(orgs, n) ==
    IF orgs = <<>> THEN <<>>
    ELSE IF ~Head(orgs).alive THEN SurvivorsAgeReset(Tail(orgs), n)
    ELSE << [Head(orgs) EXCEPT !.id = n, !.agent_ids = <<>>, !.age_steps = 0] >>
           \o SurvivorsAgeReset(Tail(orgs), n + 1)

\* A compaction that leaves every survivor the id it had.
RECURSIVE SurvivorsOldIds(_, _)
SurvivorsOldIds(orgs, n) ==
    IF orgs = <<>> THEN <<>>
    ELSE IF ~Head(orgs).alive THEN SurvivorsOldIds(Tail(orgs), n)
    ELSE << [Head(orgs) EXCEPT !.agent_ids = <<>>] >>
           \o SurvivorsOldIds(Tail(orgs), n + 1)

\* The survivors in their order, each with its new index (lines 39-48).
RECURSIVE Survivors(_, _)
Survivors(orgs, n) ==
    IF orgs = <<>> THEN <<>>
    ELSE IF ~Head(orgs).alive THEN Survivors(Tail(orgs), n)
    ELSE << [Head(orgs) EXCEPT !.id = n, !.agent_ids = <<>>] >>
           \o Survivors(Tail(orgs), n + 1)

\* A compaction that keeps an agent only if its organism kept its index.
KeptAgentsUnmovedOnly(ags, remap) ==
    SelectSeq(ags, LAMBDA a : /\ a.organism_id + 1 \in DOMAIN remap
                              /\ remap[a.organism_id + 1] = << a.organism_id >>)

\* The agents kept, each with its organism index rewritten (lines 50-60).
RECURSIVE KeptAgents(_, _)
KeptAgents(ags, remap) ==
    IF ags = <<>> THEN <<>>
    ELSE LET a == Head(ags)
             mapped == IF a.organism_id + 1 \in DOMAIN remap
                       THEN remap[a.organism_id + 1] ELSE <<>>
         IN  IF mapped = <<>> THEN KeptAgents(Tail(ags), remap)
             ELSE << [a EXCEPT !.organism_id = mapped[1]] >>
                    \o KeptAgents(Tail(ags), remap)

\* World::prune_dead_entities on (agents, organisms).
PruneDeadEntities(ags, orgs) ==
    IF \A i \in DOMAIN orgs : orgs[i].alive
    THEN [ agents |-> ags, organisms |-> orgs, pruned |-> FALSE ]
    ELSE LET new_agents == KeptAgents(ags, Remap(orgs))
         IN  [ agents |-> new_agents,
               organisms |-> PushAgentIds(Survivors(orgs, 0), new_agents),
               pruned |-> TRUE ]

\* A test that looks at the dead fraction alone.
ShouldCompactByFraction(orgs, step, c) ==
    LET dead_count == Cardinality({i \in DOMAIN orgs : ~orgs[i].alive})
    IN  /\ dead_count > 0
        /\ dead_count * 4 >= Max(Len(orgs), 1)

\* The test of lines 582-588.
\* A test that compacts on the steps of the interval only.
ShouldCompactOnInterval(orgs, step, c) ==
    LET dead_count == Cardinality({i \in DOMAIN orgs : ~orgs[i].alive})
    IN  /\ dead_count > 0
        /\ step % c.compaction_interval_steps = 0

ShouldCompact(orgs, step, c) ==
    LET dead_count == Cardinality({i \in DOMAIN orgs : ~orgs[i].alive})
    IN  /\ dead_count > 0
        /\ \/ step % c.compaction_interval_steps = 0
           \/ dead_count * 4 >= Max(Len(orgs), 1)

StepCompactPhase ==
    /\ pc = "compact"
    /\ pc' = "environment"
    /\ IF ShouldCompact(organisms, step_index, config)
       THEN LET r == PruneDeadEntities(agents, organisms)
            IN  /\ agents' = r.agents
                /\ organisms' = r.organisms
                /\ IF r.pruned
                   THEN /\ org_toroidal_sums' = [i \in DOMAIN r.organisms |-> <<>>]
                        /\ org_counts' = [i \in DOMAIN r.organisms |-> 0]
                   ELSE UNCHANGED << org_toroidal_sums, org_counts >>
       ELSE UNCHANGED << agents, organisms, org_toroidal_sums, org_counts >>
    /\ UNCHANGED << call, config, resource_field, next_agent_id, step_index,
                    births_last_step, deaths_last_step, total_births,
                    total_deaths, next_organism_stable_id,
                    agent_id_exhaustions_last_step, total_agent_id_exhaustions,
                    lifespans, lineage_events, current_resource_rate, locals,
                    exp, ever_agent_ids, ever_stable_ids >>

\* --------------------------------------------------- step_environment_phase
\* The per-cell cap of ResourceField::regenerate.
ResourceCap == One

\* ResourceField::regenerate
FieldRegenerate(field, amount) ==
    [cell \in DOMAIN field |-> Min(field[cell] + amount, ResourceCap)]

\* The rate after the shift and cycle rules (lines 527-540).
NextResourceRate(rate, step, c) ==
    LET shifted == IF c.environment_shift_step > 0
                      /\ step = c.environment_shift_step
                   THEN c.environment_shift_resource_rate
                   ELSE rate
    IN  IF c.environment_cycle_period > 0
        THEN IF (step \div c.environment_cycle_period) % 2 = 0
             THEN c.resource_regeneration_rate
             ELSE c.environment_cycle_low_rate
        ELSE shifted

\* A regeneration at the configured rate, whatever the current rate is.
RegeneratedAtConfiguredRate(field, rate, c) ==
    IF c.resource_regeneration_rate > 0
    THEN FieldRegenerate(field, c.resource_regeneration_rate * c.dt)
    ELSE field

\* `if self.current_resource_rate > 0.0 { self.resource_field.regenerate(
\* self.current_resource_rate * self.config.dt) }`
Regenerated(field, rate, c) ==
    IF rate > 0 THEN FieldRegenerate(field, rate * c.dt) ELSE field

\* The sham process reads the index and the agents and writes nothing.
StepEnvironmentPhase ==
    LET rate == NextResourceRate(current_resource_rate, step_index, config)
    IN  /\ pc = "environment"
        /\ pc' = IF exp.active THEN "sample" ELSE "idle"
        /\ locals' = NoLocals
        /\ current_resource_rate' = rate
        /\ resource_field' = Regenerated(resource_field, rate, config)
        /\ UNCHANGED << call, config, agents, organisms, org_toroidal_sums,
                        org_counts, next_agent_id, step_index,
                        births_last_step, deaths_last_step, total_births,
                        total_deaths, next_organism_stable_id,
                        agent_id_exhaustions_last_step,
                        total_agent_id_exhaustions, lifespans, lineage_events,
                        exp, ever_agent_ids, ever_stable_ids >>

\* ------------------------------------------------------------ World::step
\* A call of step() by the owner of the world, outside any experiment.
Step ==
    /\ pc = "idle"
    /\ ~exp.active /\ exp.result = "none"
    /\ step_index < MaxSteps
    /\ StepOpen
    /\ UNCHANGED exp

\* The phases of a step in progress, in the order step() calls them.
StepPhases ==
    \/ StepAgentStatePhase
    \/ StepBoundaryPhase
    \/ StepMetabolismPhase
    \/ StepGrowthAndCrowdingPhase
    \/ StepReproducePhase
    \/ StepCompactPhase
    \/ StepEnvironmentPhase

\* ---------------------------------------------------- try_run_experiment
MAX_EXPERIMENT_STEPS == 1000000

MAX_EXPERIMENT_SAMPLES == 50000

\* An estimate that divides and forgets the last, partial interval.
EstimatedSamplesFloor(steps, sample_every) == steps \div sample_every

\* `if steps == 0 { 0 } else { ((steps - 1) / sample_every) + 1 }`
EstimatedSamples(steps, sample_every) ==
    IF steps = 0 THEN 0 ELSE ((steps - 1) \div sample_every) + 1

\* The argument checks both drivers open with, in their order: the error
\* returned, or "Ok" when the run goes ahead.
ExperimentCheck(steps, sample_every) ==
    IF sample_every = 0 THEN "InvalidSampleEvery"
    ELSE IF steps > MAX_EXPERIMENT_STEPS THEN "TooManySteps"
    ELSE IF EstimatedSamples(steps, sample_every) > MAX_EXPERIMENT_SAMPLES
         THEN "TooManySamples"
    ELSE "Ok"

\* World::alive_count
AliveCount(orgs) == Cardinality({i \in DOMAIN orgs : orgs[i].alive})

\* World::collect_step_metrics(step): the counts of the sample (its means
\* and deviations are left out).
CollectStepMetrics(step) ==
    [ step |-> step,
      alive_count |-> AliveCount(organisms),
      birth_count |-> births_last_step,
      death_count |-> deaths_last_step,
      population_size |-> Len(organisms),
      agent_id_exhaustion_events |-> agent_id_exhaustions_last_step,
      max_generation |->
          MaxOf({0} \cup {organisms[i].generation :
                            i \in {j \in DOMAIN organisms : organisms[j].alive}}) ]

\* compute_organism_centers_with_counts: the second component
LiveAgentCounts(ags, orgs) ==
    [i \in DOMAIN orgs |->
        IF orgs[i].alive THEN Len(PositionsOf(ags, orgs, i - 1)) ELSE 0]

\* World::collect_organism_snapshots(step): one entry per live organism, in
\* array order.
RECURSIVE SnapshotsFrom(_, _, _)
SnapshotsFrom(i, centers, counts) ==
    IF i > Len(organisms) THEN <<>>
    ELSE IF ~organisms[i].alive THEN SnapshotsFrom(i + 1, centers, counts)
    ELSE LET org == organisms[i]
             center == IF centers[i] = <<>> THEN <<0, 0>> ELSE centers[i][1]
         IN  << [ stable_id |-> org.stable_id,
                  generation |-> org.generation,
                  age_steps |-> org.age_steps,
                  energy |-> org.metabolic_state.energy,
                  waste |-> org.metabolic_state.waste,
                  boundary_integrity |-> org.boundary_integrity,
                  maturity |-> org.maturity,
                  center_x |-> center[1], center_y |-> center[2],
                  n_agents |-> counts[i] ] >>
                \o SnapshotsFrom(i + 1, centers, counts)

CollectOrganismSnapshots(step) ==
    [ step |-> step,
      organisms |->
          SnapshotsFrom(1, OrganismCenters(agents, organisms, config.world_size),
                        LiveAgentCounts(agents, organisms)) ]

\* The arguments a caller passes: step counts around both limits, sampling
\* intervals that put the sample estimate on either side of its limit, and
\* the steps to take snapshots at.
ExpSteps ==
    {0, 1, 2, 3, 100000, 100001, MAX_EXPERIMENT_STEPS, MAX_EXPERIMENT_STEPS + 1}

ExpSampleEvery == {0, 1, 2, 19, 20}

\* Lists of snapshot steps: a repeated step beside step 0, and steps out of
\* order beside a step that no run of the model gets to.
ExpSnapshotSteps == { <<2, 2, 0>>, <<3, 1, 5>> }

\* A test that looks at the first element of the list only.
SliceStartsWith(xs, x) == xs # <<>> /\ xs[1] = x

\* `snapshot_steps.contains(&step)`
SliceContains(xs, x) == \E n \in DOMAIN xs : xs[n] = x

\* A driver that clears the list before it has checked its arguments.
ClearedBeforeCheck(check, xs) == <<>>

\* A driver that keeps what the world had collected before the call.
KeptOnCall(check, xs) == xs

\* `self.lifespans.clear(); self.lineage_events.clear();` stand after the
\* argument checks: a list xs of the world after a call whose check gave
\* `check`.
ClearedOnCall(check, xs) == IF check # "Ok" THEN xs ELSE <<>>

\* The opening of either driver (mod.rs 437-461 and 489-514): an argument
\* error returns at once; otherwise the world's lifespans and lineage events
\* are cleared and the loop starts.
ExperimentCall(variant, steps, sample_every, snapshot_steps) ==
    LET check == ExperimentCheck(steps, sample_every)
        frame == [ NoExp EXCEPT !.variant = variant, !.steps = steps,
                                !.sample_every = sample_every,
                                !.snapshot_steps = snapshot_steps ]
    IN  /\ pc = "idle"
        /\ ~exp.active /\ exp.result = "none"
        /\ exp' = IF check # "Ok"
                  THEN [frame EXCEPT !.result = check]
                  ELSE [frame EXCEPT !.active = TRUE,
                                     !.births_before = total_births]
        /\ lifespans' = ClearedOnCall(check, lifespans)
        /\ lineage_events' = ClearedOnCall(check, lineage_events)
        /\ UNCHANGED << call, config, agents, organisms, resource_field,
                        org_toroidal_sums, org_counts, next_agent_id,
                        step_index, births_last_step, deaths_last_step,
                        total_births, total_deaths, next_organism_stable_id,
                        agent_id_exhaustions_last_step,
                        total_agent_id_exhaustions, current_resource_rate,
                        pc, locals, ever_agent_ids, ever_stable_ids >>

TryRunExperiment ==
    \E steps \in ExpSteps, sample_every \in ExpSampleEvery :
        ExperimentCall("plain", steps, sample_every, <<>>)

TryRunExperimentWithSnapshots ==
    \E steps \in ExpSteps, sample_every \in ExpSampleEvery,
       snapshot_steps \in ExpSnapshotSteps :
        ExperimentCall("snapshots", steps, sample_every, snapshot_steps)

\* `for step in 1..=steps { self.step(); ...`: the next iteration calls step().
ExpStep ==
    /\ pc = "idle"
    /\ exp.active
    /\ exp.step < exp.steps
    /\ step_index < MaxSteps
    /\ StepOpen
    /\ exp' = [exp EXCEPT !.step = @ + 1]

\* A sampling test that forgets the final step.
SampleDueOnInterval(step, steps, sample_every) == step % sample_every = 0

\* `step % sample_every == 0 || step == steps`
SampleDue(step, steps, sample_every) ==
    step % sample_every = 0 \/ step = steps

\* A sampling that takes the lifespans out of the world, as the end of the
\* run does.
ExpSampleTakesLifespans ==
    /\ pc = "sample"
    /\ pc' = "idle"
    /\ exp' = [exp EXCEPT
                 !.samples =
                     IF SampleDue(exp.step, exp.steps, exp.sample_every)
                     THEN Append(@, CollectStepMetrics(exp.step)) ELSE @,
                 !.snapshots =
                     IF exp.variant = "snapshots"
                        /\ SliceContains(exp.snapshot_steps, exp.step)
                     THEN Append(@, CollectOrganismSnapshots(exp.step)) ELSE @]
    /\ lifespans' = IF SampleDue(exp.step, exp.steps, exp.sample_every)
                    THEN <<>> ELSE lifespans
    /\ UNCHANGED << call, config, agents, organisms, resource_field,
                    org_toroidal_sums, org_counts, next_agent_id,
                    step_index, births_last_step, deaths_last_step,
                    total_births, total_deaths, next_organism_stable_id,
                    agent_id_exhaustions_last_step,
                    total_agent_id_exhaustions, lineage_events,
                    current_resource_rate, locals, ever_agent_ids,
                    ever_stable_ids >>

\* The rest of the loop body, after step() has returned: the sample and, in
\* the snapshot variant, the snapshot of this step.
ExpSample ==
    /\ pc = "sample"
    /\ pc' = "idle"
    /\ exp' = [exp EXCEPT
                 !.samples =
                     IF SampleDue(exp.step, exp.steps, exp.sample_every)
                     THEN Append(@, CollectStepMetrics(exp.step)) ELSE @,
                 !.snapshots =
                     IF exp.variant = "snapshots"
                        /\ SliceContains(exp.snapshot_steps, exp.step)
                     THEN Append(@, CollectOrganismSnapshots(exp.step)) ELSE @]
    /\ UNCHANGED << call, config, worldVars, locals, ever_agent_ids, ever_stable_ids >>

\* The loop is over: the summary is built, taking the world's lifespans and
\* lineage events with it.
ExpFinish ==
    /\ pc = "idle"
    /\ exp.active
    /\ exp.step = exp.steps
    /\ exp' = [exp EXCEPT
                 !.active = FALSE,
                 !.result = "RunSummary",
                 !.summary =
                     << [ schema_version |-> 1,
                          steps |-> exp.steps,
                          sample_every |-> exp.sample_every,
                          final_alive_count |-> AliveCount(organisms),
                          samples |-> exp.samples,
                          lifespans |-> lifespans,
                          total_reproduction_events |->
                              total_births - exp.births_before,
                          lineage_events |-> lineage_events,
                          organism_snapshots |-> exp.snapshots ] >>]
    /\ lifespans' = <<>>
    /\ lineage_events' = <<>>
    /\ UNCHANGED << call, config, agents, organisms, resource_field,
                    org_toroidal_sums, org_counts, next_agent_id,
                    step_index, births_last_step, deaths_last_step,
                    total_births, total_deaths, next_organism_stable_id,
                    agent_id_exhaustions_last_step,
                    total_agent_id_exhaustions, current_resource_rate,
                    pc, locals, ever_agent_ids, ever_stable_ids >>

\* ------------------------------------------------------- the worlds checked
\* Founder agents in the layout of create_agents: agent k belongs to organism
\* k / agents_per_organism and has id first_id + k; the agents of organism i
\* start at place[i + 1] with velocity vel.
FounderAgents(c, first_id, place, vel) ==
    [k \in 1 .. c.num_organisms * c.agents_per_organism |->
        LET org == (k - 1) \div c.agents_per_organism
        IN  [AgentNew(first_id + k - 1, org, place[org + 1]) EXCEPT
               !.velocity = vel]]

\* The founders' networks (their four outputs) and starting places: the first
\* founder drifts toward lower x from the origin, the second toward higher y.
FounderNets == << <<-1, 0, 1, -1>>, <<0, 1, -1, 0>> >>

FounderPlaces == << <<0, 0>>, <<4, 3>> >>

\* Worlds for the lifecycle: two founders with one or two agents each (and
\* children of as many agents), their ids starting low or near the top of
\* the id range.
LifeConfigs ==
    { [BaseConfig EXCEPT !.agents_per_organism = n,
                         !.reproduction_child_min_agents = n] : n \in {1, 2} }

\* Worlds for every combination of the homeostasis, boundary and growth
\* flags, with decaying homeostatic pools.
FlagConfigs ==
    { [BaseConfig EXCEPT !.enable_homeostasis = h,
                         !.enable_boundary_maintenance = b,
                         !.enable_growth = g,
                         !.homeostasis_decay_rate = 1] :
        h \in BOOLEAN, b \in BOOLEAN, g \in BOOLEAN }

InitWorld(c, first_id) ==
    WorldNew(FounderAgents(c, first_id, FounderPlaces, <<0, 0>>),
             SubSeq(FounderNets, 1, c.num_organisms), c)

Init ==
    \/ \E c \in LifeConfigs, first_id \in {0, U32Max - 4} : InitWorld(c, first_id)
    \/ \E c \in FlagConfigs : InitWorld(c, 0)

Next == Step \/ StepPhases

Spec == Init /\ [][Next]_vars

\* Worlds driven by an experiment, which the owner may have stepped before
\* the call: one founder with its metabolism running, or a founder pair
\* without metabolism.
ExpConfigs ==
    { [BaseConfig EXCEPT !.num_organisms = 1],
      [BaseConfig EXCEPT !.enable_metabolism = FALSE] }

InitExp == \E c \in ExpConfigs : InitWorld(c, 0)

NextExp ==
    \/ Step
    \/ StepPhases
    \/ TryRunExperiment
    \/ TryRunExperimentWithSnapshots
    \/ ExpStep
    \/ ExpSample
    \/ ExpFinish

SpecExp == InitExp /\ [][NextExp]_vars


\* The lifecycle worlds alone: births, deaths, the agent cap, the end of the
\* id range, and compaction every second or every third step; and one world
\* whose children's genomes mutate.
\* A world whose children's genomes mutate: one founder of two agents with
\* an all-zero network; a birth takes all the energy the parent needs to be
\* one, nothing feeds the organisms and crowding does not harm them, so the
\* founder has one child, that child has one, and the agent cap stops the
\* line there.
EvolvingConfig ==
    [BaseConfig EXCEPT !.enable_evolution = TRUE, !.enable_metabolism = FALSE,
                       !.crowding_boundary_decay = 0,
                       !.num_organisms = 1, !.agents_per_organism = 2,
                       !.reproduction_child_min_agents = 2,
                       !.reproduction_energy_cost = One]

\* A world that compacts by the interval every fourth step only, so that an
\* organism that dies among five or six stays in the array for later steps,
\* and whose organisms do not die of age in that time.
LingeringConfig ==
    [BaseConfig EXCEPT !.compaction_interval_steps = 4,
                       !.max_organism_age_steps = 4]

InitLife ==
    \/ \E c \in LifeConfigs, first_id \in {0, U32Max - 5, U32Max - 4},
          interval \in {2, 3} :
          InitWorld([c EXCEPT !.compaction_interval_steps = interval], first_id)
    \/ InitWorld(LingeringConfig, 0)
    \/ WorldNew(FounderAgents(EvolvingConfig, 0, FounderPlaces, <<0, 0>>),
                << <<0, 0, 0, 0>> >>, EvolvingConfig)

NextLife == Step \/ StepPhases

SpecLife == InitLife /\ [][NextLife]_vars

\* Worlds for the environment rules, without reproduction: no regeneration
\* at all; a shift at step 2 from rate 0.5 to 0, and one from 0 to 0.5; and
\* cycles of period 1 and 2 between the rate 0.5 and the low rate 0.
EnvConfigs ==
    { [BaseConfig EXCEPT !.enable_reproduction = FALSE,
                         !.resource_regeneration_rate = e[1],
                         !.environment_shift_step = e[2],
                         !.environment_shift_resource_rate = e[3],
                         !.environment_cycle_period = e[4],
                         !.environment_cycle_low_rate = 0] :
        e \in { <<0, 0, 0, 0>>, <<1, 2, 0, 0>>, <<0, 2, 1, 0>>,
                <<1, 0, 0, 1>>, <<1, 0, 0, 2>> } }

InitEnv == \E c \in EnvConfigs : InitWorld(c, 0)

NextEnv == Step \/ StepPhases

SpecEnv == InitEnv /\ [][NextEnv]_vars


\* Worlds for growth: maturity takes two steps to reach 1.0 from 0, and an
\* organism may live three steps.
GrowConfigs ==
    { [BaseConfig EXCEPT !.growth_maturation_steps = 2,
                         !.max_organism_age_steps = 3] }

InitGrow == \E c \in GrowConfigs : InitWorld(c, 0)

NextGrow == Step \/ StepPhases

\* The owner has called step() for the last time.
RunOver == pc = "idle" /\ step_index = MaxSteps

\* step() runs its phases to the end once it is called, and the owner of the
\* world goes on calling it while steps remain: WF_vars(NextGrow), with
\* ENABLED <<NextGrow>>_vars written out as ~RunOver (a phase or a call of
\* step() is possible in every other state).
SpecGrow ==
    InitGrow /\ [][NextGrow]_vars /\ ([]<>RunOver \/ []<><<NextGrow>>_vars)


\* ---------------------------------------------------------- World::try_new
\* The largest usize, scaled down.
UsizeMax == 8

\* `a.checked_mul(b)` on usize: <<>> for None
CheckedMul(a, b) == IF a * b > UsizeMax THEN <<>> ELSE << a * b >>

\* A try_new that compares the agent count before it tests the agent cap.
TryNewCountBeforeCap(config_valid, c, agents_in, nns) ==
    LET expected_agent_count == CheckedMul(c.num_organisms, c.agents_per_organism)
    IN  IF ~config_valid THEN "Config"
        ELSE IF c.num_organisms # Len(nns) THEN "NumOrganismsMismatch"
        ELSE IF expected_agent_count = <<>> THEN "AgentCountOverflow"
        ELSE IF Len(agents_in) # expected_agent_count[1] THEN "AgentCountMismatch"
        ELSE IF expected_agent_count[1] > MAX_TOTAL_AGENTS THEN "TooManyAgents"
        ELSE IF ~(\A k \in DOMAIN agents_in : agents_in[k].organism_id < Len(nns))
        THEN "InvalidOrganismId"
        ELSE "Ok"

\* What World::try_new returns: "Ok" or the name of its WorldInitError.
\* config_valid is whether config.validate() returned Ok.
TryNewResult(config_valid, c, agents_in, nns) ==
    LET expected_agent_count == CheckedMul(c.num_organisms, c.agents_per_organism)
    IN  IF ~config_valid THEN "Config"
        ELSE IF c.num_organisms # Len(nns) THEN "NumOrganismsMismatch"
        ELSE IF expected_agent_count = <<>> THEN "AgentCountOverflow"
        ELSE IF expected_agent_count[1] > MAX_TOTAL_AGENTS THEN "TooManyAgents"
        ELSE IF Len(agents_in) # expected_agent_count[1] THEN "AgentCountMismatch"
        ELSE IF ~(\A k \in DOMAIN agents_in : agents_in[k].organism_id < Len(nns))
        THEN "InvalidOrganismId"
        ELSE "Ok"

\* The variables before any world is constructed from config c.
Unbuilt(c) ==
    /\ config = c
    /\ agents = <<>>
    /\ organisms = <<>>
    /\ resource_field = ResourceFieldNew(c.world_size)
    /\ org_toroidal_sums = <<>>
    /\ org_counts = <<>>
    /\ next_agent_id = 0
    /\ step_index = 0
    /\ births_last_step = 0
    /\ deaths_last_step = 0
    /\ total_births = 0
    /\ total_deaths = 0
    /\ next_organism_stable_id = 0
    /\ agent_id_exhaustions_last_step = 0
    /\ total_agent_id_exhaustions = 0
    /\ lifespans = <<>>
    /\ lineage_events = <<>>
    /\ current_resource_rate = c.resource_regeneration_rate
    /\ pc = "unbuilt"
    /\ locals = NoLocals
    /\ exp = NoExp
    /\ ever_agent_ids = {}
    /\ ever_stable_ids = {}

\* World::try_new(agents, nns, config): the result, and on Ok the world.
TryNew ==
    /\ call.op = "try_new" /\ call.result = "none"
    /\ LET r == TryNewResult(call.config_valid, config, call.agents, call.nns)
           nns == call.nns
       IN  /\ call' = [call EXCEPT !.result = r]
           /\ IF r = "Ok"
              THEN /\ agents' = call.agents
                   /\ organisms' =
                         PushAgentIds([i \in 1 .. Len(nns) |->
                                          FounderOrganism(i - 1, nns[i])],
                                      call.agents)
                   /\ org_toroidal_sums' = [i \in 1 .. Len(nns) |-> <<>>]
                   /\ org_counts' = [i \in 1 .. Len(nns) |-> 0]
                   /\ next_agent_id' =
                         SaturatingSucc(
                           IF call.agents = <<>> THEN 0
                           ELSE MaxOf({call.agents[k].id : k \in DOMAIN call.agents}))
                   /\ next_organism_stable_id' = Len(nns)
                   /\ ever_agent_ids' = {call.agents[k].id : k \in DOMAIN call.agents}
                   /\ ever_stable_ids' = 0 .. Len(nns) - 1
                   /\ pc' = "idle"
              ELSE UNCHANGED << agents, organisms, org_toroidal_sums, org_counts,
                                next_agent_id, next_organism_stable_id,
                                ever_agent_ids, ever_stable_ids, pc >>
    /\ UNCHANGED << config, resource_field, step_index, births_last_step,
                    deaths_last_step, total_births, total_deaths,
                    agent_id_exhaustions_last_step, total_agent_id_exhaustions,
                    lifespans, lineage_events, current_resource_rate, locals,
                    exp >>

\* Arguments for try_new: configs asking for 0 to 4 organisms of 0 to 4
\* agents, 0 to 3 networks, and up to 3 agents placed on organisms 0 to 2.
NewCounts == 0 .. 4

NewNets == {[i \in 1 .. n |-> FounderNets[1]] : n \in 0 .. 3}

NewAgents ==
    UNION {{[k \in 1 .. n |-> AgentNew(k - 1, f[k], <<0, 0>>)] :
               f \in [1 .. n -> 0 .. 2]} : n \in 0 .. 3}

InitNew ==
    \E n \in NewCounts, a \in NewCounts, nns \in NewNets, ags \in NewAgents,
       valid \in BOOLEAN :
        /\ Unbuilt([BaseConfig EXCEPT !.num_organisms = n,
                                      !.agents_per_organism = a])
        /\ call = [ op |-> "try_new", config_valid |-> valid, agents |-> ags,
                    nns |-> nns, result |-> "none" ]

NextNew == TryNew

SpecNew == InitNew /\ [][NextNew]_vars


\* ------------------------------------------------------------------ Genome
\* `let placeholder_sizes = [16, 8, 8, 4, 4, 4]`
placeholder_sizes == << 16, 8, 8, 4, 4, 4 >>

\* The segment table (lines 36-42): (start, len) of the segments after
\* segment 0, the first of them starting at offset.
RECURSIVE SegmentsFrom(_, _)
SegmentsFrom(offset, sizes) ==
    IF sizes = <<>> THEN <<>>
    ELSE << << offset, Head(sizes) >> >>
           \o SegmentsFrom(offset + Head(sizes), Tail(sizes))

\* A constructor that starts every later segment where the one before it
\* started.
WithNnWeightsOffsetKept(nn_weights) ==
    LET nn_len == Len(nn_weights)
        total_len == nn_len + SumSeq(placeholder_sizes)
    IN  [ data |-> [k \in 1 .. total_len |->
                       IF k <= nn_len THEN nn_weights[k] ELSE 0],
          segments |-> << << 0, nn_len >> >>
                        \o [i \in DOMAIN placeholder_sizes |->
                               << nn_len, placeholder_sizes[i] >>] ]

\* Genome::with_nn_weights
WithNnWeights(nn_weights) ==
    LET nn_len == Len(nn_weights)
        total_len == nn_len + SumSeq(placeholder_sizes)
    IN  [ data |-> [k \in 1 .. total_len |->
                       IF k <= nn_len THEN nn_weights[k] ELSE 0],
          segments |-> << << 0, nn_len >> >>
                        \o SegmentsFrom(nn_len, placeholder_sizes) ]

\* Genome::segment_data(criterion)
SegmentData(g, criterion) ==
    LET seg == At(g.segments, criterion)
    IN  SubSeq(g.data, seg[1] + 1, seg[1] + seg[2])

\* Most calls of mutate made on one genome.
MaxMutations == 1

\* let g = Genome::with_nn_weights(w)
CallWithNnWeights ==
    /\ call.op = "genome" /\ call.genome = <<>>
    /\ call' = [call EXCEPT !.genome = << WithNnWeights(call.nn_weights) >>]
    /\ UNCHANGED << config, worldVars, pc, locals, exp, ever_agent_ids,
                    ever_stable_ids >>

\* g.mutate(rng, rates); the non-zero point deltas of all the calls on one
\* genome together are at most MaxPointHits.
CallMutate ==
    /\ call.op = "genome" /\ call.genome # <<>>
    /\ call.mutations < MaxMutations
    /\ \E hits \in 0 .. MaxPointHits - call.hits :
          \E data \in MutateFrom(call.genome[1].data, call.rates, hits) :
              call' = [call EXCEPT
                         !.genome = << [call.genome[1] EXCEPT !.data = data] >>,
                         !.mutations = @ + 1,
                         !.hits = @ + hits]
    /\ UNCHANGED << config, worldVars, pc, locals, exp, ever_agent_ids,
                    ever_stable_ids >>

\* Weights handed to the constructor: none, or one value between -1.5 and
\* 1.5.
GenomeWeights == {<<>>} \cup {<< v >> : v \in {-3, -1, 0, 2, 3}}

\* Mutation rates: a point mutation or none under the limit 1.0; and, under
\* the limits 0.5 and 1.0, a reset or none, a scaling or none, a reset or a
\* scaling with no other outcome, and no mutation at all.
GenomeRates ==
    { [ point_rate |-> p[1], point_scale |-> 1, reset_rate |-> p[2],
        scale_rate |-> p[3], scale_min |-> 1, scale_max |-> 3,
        value_limit |-> p[4] ] :
        p \in { <<1, 0, 0, 2>> }
               \cup { <<0, q[1], q[2], l>> : q \in {0, 1} \X {0, 1}, l \in {1, 2} } }

InitGenome ==
    \E w \in GenomeWeights, r \in GenomeRates :
        /\ Unbuilt(BaseConfig)
        /\ call = [ op |-> "genome", nn_weights |-> w, rates |-> r,
                    genome |-> <<>>, mutations |-> 0, hits |-> 0 ]

NextGenome == CallWithNnWeights \/ CallMutate

SpecGenome == InitGenome /\ [][NextGenome]_vars


\* --------------------------------------------------------------- NeuralNet
INPUT_SIZE == 8

HIDDEN_SIZE == 16

OUTPUT_SIZE == 4

\* NeuralNet::WEIGHT_COUNT
WEIGHT_COUNT ==
    INPUT_SIZE * HIDDEN_SIZE + HIDDEN_SIZE + HIDDEN_SIZE * OUTPUT_SIZE + OUTPUT_SIZE

\* `for b in &mut array { *b = next() }` on the values still in the iterator:
\* the array filled, the values left, and whether every next() had a value
\* (the `expect` panics when one has not).
RECURSIVE ReadArray(_, _)
ReadArray(weights, n) ==
    IF n = 0 THEN [ out |-> <<>>, rest |-> weights, ok |-> TRUE ]
    ELSE IF weights = <<>> THEN [ out |-> <<>>, rest |-> <<>>, ok |-> FALSE ]
    ELSE LET more == ReadArray(Tail(weights), n - 1)
         IN  [ more EXCEPT !.out = << Head(weights) >> \o @ ]

\* `for row in &mut matrix { for w in row.iter_mut() { *w = next() } }`
RECURSIVE ReadRows(_, _, _)
ReadRows(weights, rows, cols) ==
    IF rows = 0 THEN [ out |-> <<>>, rest |-> weights, ok |-> TRUE ]
    ELSE LET row == ReadArray(weights, cols)
         IN  IF ~row.ok THEN row
             ELSE LET more == ReadRows(row.rest, rows - 1, cols)
                  IN  [ more EXCEPT !.out = << row.out >> \o @ ]

\* A decoder that reads both matrices before both bias vectors.
FromWeightsMatricesFirst(weights) ==
    LET ih == ReadRows(weights, INPUT_SIZE, HIDDEN_SIZE)
        ho == ReadRows(ih.rest, HIDDEN_SIZE, OUTPUT_SIZE)
        bh == ReadArray(ho.rest, HIDDEN_SIZE)
        bo == ReadArray(bh.rest, OUTPUT_SIZE)
    IN  IF ~(ih.ok /\ bh.ok /\ ho.ok /\ bo.ok) THEN [ panicked |-> TRUE ]
        ELSE [ panicked |-> FALSE, w_ih |-> ih.out, b_h |-> bh.out,
               w_ho |-> ho.out, b_o |-> bo.out, rest |-> bo.rest ]

\* A decoder that fills the input-to-hidden matrix column by column.
FromWeightsByColumn(weights) ==
    LET ih == ReadRows(weights, HIDDEN_SIZE, INPUT_SIZE)
        bh == ReadArray(ih.rest, HIDDEN_SIZE)
        ho == ReadRows(bh.rest, HIDDEN_SIZE, OUTPUT_SIZE)
        bo == ReadArray(ho.rest, OUTPUT_SIZE)
    IN  IF ~(ih.ok /\ bh.ok /\ ho.ok /\ bo.ok) THEN [ panicked |-> TRUE ]
        ELSE [ panicked |-> FALSE,
               w_ih |-> [i \in 1 .. INPUT_SIZE |->
                           [j \in 1 .. HIDDEN_SIZE |-> ih.out[j][i]]],
               b_h |-> bh.out, w_ho |-> ho.out, b_o |-> bo.out,
               rest |-> bo.rest ]

\* NeuralNet::from_weights on the values an iterator yields: the network and
\* the values left in the iterator, or the panic of `expect`.
FromWeights(weights) ==
    LET ih == ReadRows(weights, INPUT_SIZE, HIDDEN_SIZE)
        bh == ReadArray(ih.rest, HIDDEN_SIZE)
        ho == ReadRows(bh.rest, HIDDEN_SIZE, OUTPUT_SIZE)
        bo == ReadArray(ho.rest, OUTPUT_SIZE)
    IN  IF ~(ih.ok /\ bh.ok /\ ho.ok /\ bo.ok) THEN [ panicked |-> TRUE ]
        ELSE [ panicked |-> FALSE, w_ih |-> ih.out, b_h |-> bh.out,
               w_ho |-> ho.out, b_o |-> bo.out, rest |-> bo.rest ]

\* let nn = NeuralNet::from_weights(weights)
CallFromWeights ==
    /\ call.op = "from_weights" /\ call.nn = <<>>
    /\ call' = [call EXCEPT !.nn = << FromWeights(call.weights) >>]
    /\ UNCHANGED << config, worldVars, pc, locals, exp, ever_agent_ids,
                    ever_stable_ids >>

\* The flat vector that is 0 everywhere but 1 at index k (from 0).
UnitWeights(k) == [i \in 1 .. WEIGHT_COUNT |-> IF i = k + 1 THEN 1 ELSE 0]

\* Iterators for from_weights: one value short of WEIGHT_COUNT up to two
\* more, the k-th value being a residue of k times a stride plus a shift, so
\* that misplaced values show; and every unit vector.
NetWeights ==
    { [k \in 1 .. n |-> (k * m + s) % 251] :
        n \in WEIGHT_COUNT - 1 .. WEIGHT_COUNT + 2, m \in {1, 7}, s \in 0 .. 15 }
    \cup { UnitWeights(k) : k \in 0 .. WEIGHT_COUNT - 1 }

InitNet ==
    \E w \in NetWeights :
        /\ Unbuilt(BaseConfig)
        /\ call = [ op |-> "from_weights", weights |-> w, nn |-> <<>> ]

NextNet == CallFromWeights

SpecNet == InitNet /\ [][NextNet]_vars


\* =================================================================== claims

\* ids of the agents now in the world
AgentIdSet == {agents[k].id : k \in DOMAIN agents}

\* stable ids of the organisms now in the array
StableIdSet == {organisms[i].stable_id : i \in DOMAIN organisms}

\* C1: every agent's organism_id is an index into organisms and that
\* organism's agent_ids lists the agent's id; every id an organism lists is
\* the id of an agent whose organism_id is that organism's index.
AgentOrganismLinks ==
    /\ \A k \in DOMAIN agents :
          /\ agents[k].organism_id < Len(organisms)
          /\ agents[k].id \in Range(At(organisms, agents[k].organism_id).agent_ids)
    /\ \A i \in DOMAIN organisms :
          \A id \in Range(organisms[i].agent_ids) :
              \E k \in DOMAIN agents :
                  agents[k].id = id /\ agents[k].organism_id = i - 1

\* A child has been linked in and a compaction has since moved a survivor
\* down: the organism at index 0 is not founder 0, and a child's agent is
\* listed by an organism standing below the index it was born at.
LinksAfterBirthAndPrune ==
    /\ pc = "idle"
    /\ total_births > 0 /\ total_deaths > 0
    /\ organisms # <<>>
    /\ organisms[1].stable_id # 0
    /\ \E i \in DOMAIN organisms :
          /\ organisms[i].generation > 0
          /\ organisms[i].agent_ids # <<>>
          /\ organisms[i].stable_id > i - 1

\* C2: agent ids never repeat: the agents of the world hold pairwise
\* different ids, an agent spawned by a step holds an id above every id any
\* earlier agent ever held, and next_agent_id never decreases and grows by
\* exactly one for each agent spawned.
AgentIdsNeverRepeat ==
    [][ /\ \A k, l \in DOMAIN agents' :
              k # l => agents'[k].id # agents'[l].id
        /\ \A k \in DOMAIN agents' :
              \/ agents'[k].id \in AgentIdSet
              \/ \A old \in ever_agent_ids : agents'[k].id > old
        /\ next_agent_id' >= next_agent_id
        /\ next_agent_id' - next_agent_id =
              Cardinality({k \in DOMAIN agents' : agents'[k].id \notin AgentIdSet})
      ]_vars

\* An agent of a child is in the world after some earlier agent with a lower
\* id was removed from it.
SpawnedAfterRemoval ==
    /\ pc = "idle"
    /\ \E r \in ever_agent_ids \ AgentIdSet :
          \E k \in DOMAIN agents :
              /\ agents[k].id > r
              /\ At(organisms, agents[k].organism_id).generation > 0

\* C3: stable ids are never shared or reused: the organisms of the array
\* hold pairwise different stable ids, an organism that enters the array
\* holds a stable id no organism ever held, and a stable id keeps naming the
\* same organism (same generation, same parent).
StableIdsNeverReused ==
    [][ /\ \A i, j \in DOMAIN organisms' :
              i # j => organisms'[i].stable_id # organisms'[j].stable_id
        /\ \A j \in DOMAIN organisms' :
              \/ organisms'[j].stable_id \notin ever_stable_ids
              \/ \E i \in DOMAIN organisms :
                    /\ organisms[i].stable_id = organisms'[j].stable_id
                    /\ organisms[i].generation = organisms'[j].generation
                    /\ organisms[i].parent_stable_id = organisms'[j].parent_stable_id
      ]_vars

\* A child stands in the array at an index below its stable id, after an
\* organism with a lower stable id was removed: the array index and the
\* stable id have come apart.
ChildNamedAfterRemoval ==
    /\ pc = "idle"
    /\ \E r \in ever_stable_ids \ StableIdSet :
          \E i \in DOMAIN organisms :
              /\ organisms[i].generation > 0
              /\ organisms[i].stable_id > r
              /\ organisms[i].stable_id > Len(organisms)

\* C4: an organism that is dead, or was removed from the array, is never
\* alive afterwards: no organism with its stable id is alive in any later
\* state.
DeadStaysDead ==
    [][ \A j \in DOMAIN organisms' :
          ( \/ organisms'[j].stable_id \in ever_stable_ids \ StableIdSet
            \/ \E i \in DOMAIN organisms :
                  /\ organisms[i].stable_id = organisms'[j].stable_id
                  /\ ~organisms[i].alive )
          => ~organisms'[j].alive
      ]_vars

\* An organism that died in an earlier step is still in the array, dead,
\* after the state and boundary phases of a later step have run over it.
DeadThroughLaterStep ==
    /\ pc = "metabolism"
    /\ deaths_last_step = 0
    /\ \E i \in DOMAIN organisms : ~organisms[i].alive

\* C6: the world never holds more than MAX_TOTAL_AGENTS agents.
AgentCap == Len(agents) <= MAX_TOTAL_AGENTS

\* The cap has stopped reproduction: after the reproduction phase parents
\* are eligible, no child was born, and one more child would pass the cap.
CapBlockedBirth ==
    /\ pc = "compact"
    /\ config.enable_reproduction
    /\ births_last_step = 0 /\ agent_id_exhaustions_last_step = 0
    /\ ParentIndices(organisms, config) # <<>>
    /\ Len(agents) + ChildAgents(config) > MAX_TOTAL_AGENTS
    /\ Len(organisms) <= U16Max

\* the agents of organism index i (from 0)
AgentsOfOrganism(i) == {k \in DOMAIN agents : agents[k].organism_id = i}

\* C5: after every step every dead organism in the array has boundary
\* integrity 0 and each of its agents has velocity (0, 0), the step in which
\* it died included.
DeadOrganismsInert ==
    pc = "idle" =>
        \A i \in DOMAIN organisms :
            ~organisms[i].alive =>
                /\ organisms[i].boundary_integrity = 0
                /\ \A k \in AgentsOfOrganism(i - 1) : agents[k].velocity = <<0, 0>>

\* C7: after every step every agent's position is in [0, world_size) on
\* both axes.
PositionsInWorld ==
    pc = "idle" =>
        \A k \in DOMAIN agents :
            \A axis \in 1 .. 2 :
                /\ agents[k].position[axis] >= 0
                /\ agents[k].position[axis] < config.world_size

CeilDiv(a, b) == (a + b - 1) \div b

\* what C10 says a call with these arguments returns
ExpectedResult(steps, sample_every) ==
    IF sample_every = 0 THEN "InvalidSampleEvery"
    ELSE IF steps > 1000000 THEN "TooManySteps"
    ELSE IF CeilDiv(steps, sample_every) > 50000 THEN "TooManySamples"
    ELSE "RunSummary"

\* C10: a call of try_run_experiment, or of its snapshot variant, returns
\* InvalidSampleEvery exactly when sample_every = 0; otherwise TooManySteps
\* exactly when steps > 1,000,000; otherwise TooManySamples exactly when
\* ceil(steps / sample_every) > 50,000; otherwise it runs and what it returns
\* is a RunSummary.
ExperimentResultByArguments ==
    exp.variant # "none" =>
        LET expected == ExpectedResult(exp.steps, exp.sample_every)
        IN  /\ exp.result # "none" => exp.result = expected
            /\ exp.active => exp.result = "none" /\ expected = "RunSummary"
            /\ exp.active \/ exp.result # "none"
            /\ (exp.result = "RunSummary") = (exp.summary # <<>>)

\* The snapshot variant has refused 100,001 steps sampled every 2 steps:
\* 50,000 whole intervals and a partial one make 50,001 samples.
RefusedOnPartialInterval ==
    /\ exp.variant = "snapshots"
    /\ exp.steps = 100001 /\ exp.sample_every = 2
    /\ exp.result = "TooManySamples"

\* the errors an experiment driver returns
ExperimentErrors == {"InvalidSampleEvery", "TooManySteps", "TooManySamples"}

\* C11: a call of either experiment driver that returns an ExperimentError
\* has run no step and leaves the world as it was: step_index, agents,
\* organisms, lifespans, lineage_events and every other field of the world
\* are the same after the call as before it.
ErrorLeavesWorldUnchanged ==
    [][ (exp.result = "none" /\ exp'.result \in ExperimentErrors)
          => /\ UNCHANGED << config, worldVars, pc, locals >>
             /\ ~exp'.active /\ exp'.step = 0
             /\ exp'.samples = <<>> /\ exp'.snapshots = <<>>
      ]_vars

\* A driver has refused its arguments on a world that had been stepped and
\* holds lifespans and lineage events, which a run would have cleared.
RefusedOnLivedWorld ==
    /\ exp.result \in ExperimentErrors
    /\ step_index > 0
    /\ lifespans # <<>>
    /\ lineage_events # <<>>

\* this transition is the compaction phase calling prune_dead_entities
PruneRuns ==
    /\ pc = "compact" /\ pc' = "environment"
    /\ ShouldCompact(organisms, step_index, config)

\* the agent of the world before the transition that holds id
AgentBefore(id) == agents[CHOOSE l \in DOMAIN agents : agents[l].id = id]

\* C12: prune_dead_entities changes nothing of a surviving organism but its
\* id and its agent_ids (stable_id, generation, genomes, age_steps, maturity,
\* boundary_integrity, metabolic state and parent_stable_id stay), and leaves
\* total_births, total_deaths, next_agent_id, next_organism_stable_id,
\* lifespans and lineage_events alone.
PruneKeepsSurvivorFields ==
    [][ PruneRuns =>
          /\ \A j \in DOMAIN organisms' :
                \E i \in DOMAIN organisms :
                    /\ organisms[i].alive
                    /\ [organisms'[j] EXCEPT !.id = organisms[i].id,
                                             !.agent_ids = organisms[i].agent_ids]
                         = organisms[i]
          /\ UNCHANGED << total_births, total_deaths, next_agent_id,
                          next_organism_stable_id, lifespans, lineage_events >>
      ]_vars

\* A compaction of this step has removed a dead organism and a child that
\* has aged survives it at an index other than the one it was born at.
PrunedAroundAgedChild ==
    /\ pc = "environment"
    /\ deaths_last_step > 0
    /\ \A i \in DOMAIN organisms : organisms[i].alive
    /\ \E i \in DOMAIN organisms :
          /\ organisms[i].generation > 0
          /\ organisms[i].age_steps > 0
          /\ organisms[i].stable_id # i - 1

\* stable ids of the live organisms of orgs, in array order
LiveStableIds(orgs) ==
    LET live == SelectSeq(orgs, LAMBDA o : o.alive)
    IN  [j \in DOMAIN live |-> live[j].stable_id]

\* C13: after prune_dead_entities the array holds exactly the organisms
\* that were alive, in their earlier order; every surviving agent's
\* organism_id refers to the organism with the stable id it referred to
\* before; and when only organism 0 was dead, the former organism 1 is
\* organism 0 and every surviving agent's organism_id is one less.
PruneKeepsOrderAndOwners ==
    [][ PruneRuns =>
          /\ [j \in DOMAIN organisms' |-> organisms'[j].stable_id]
                = LiveStableIds(organisms)
          /\ \A j \in DOMAIN organisms' : organisms'[j].id = j - 1
          /\ \A k \in DOMAIN agents' :
                /\ agents'[k].id \in AgentIdSet
                /\ agents'[k].organism_id < Len(organisms')
                /\ organisms'[agents'[k].organism_id + 1].stable_id
                     = At(organisms, AgentBefore(agents'[k].id).organism_id).stable_id
          /\ ( /\ Len(organisms) >= 2
               /\ ~organisms[1].alive
               /\ \A i \in 2 .. Len(organisms) : organisms[i].alive )
             => /\ organisms'[1].stable_id = organisms[2].stable_id
                /\ \A k \in DOMAIN agents' :
                      agents'[k].organism_id
                        = AgentBefore(agents'[k].id).organism_id - 1
      ]_vars

\* A compaction of this step has removed organism 0 alone: the organism now
\* at index 0 is not the first founder, at least two organisms survive, and
\* exactly one death is on record.
PrunedOrganismZeroAlone ==
    /\ pc = "environment"
    /\ deaths_last_step = 1 /\ total_deaths = 1
    /\ Len(organisms) >= 2
    /\ \A i \in DOMAIN organisms : organisms[i].alive
    /\ 0 \notin StableIdSet
    /\ \A i \in DOMAIN organisms : organisms[i].agent_ids # <<>>

\* ids of the agents of ags whose organism is alive in orgs, in agent order
LiveAgentIds(ags, orgs) ==
    LET kept == SelectSeq(ags, LAMBDA a : AliveAt(orgs, a.organism_id))
    IN  [k \in DOMAIN kept |-> kept[k].id]

\* C14: after a compaction that found a dead organism every organism of
\* the array is alive, every agent left refers to a live organism, the agents
\* dropped are exactly those of dead organisms, and the agents kept hold
\* their ids and their order.
PruneDropsExactlyTheDead ==
    [][ PruneRuns =>
          /\ \A j \in DOMAIN organisms' : organisms'[j].alive
          /\ \A k \in DOMAIN agents' : AliveAt(organisms', agents'[k].organism_id)
          /\ [k \in DOMAIN agents' |-> agents'[k].id]
                = LiveAgentIds(agents, organisms)
      ]_vars

\* A compaction of this step has dropped the agents of a dead organism and
\* kept others: some agent id once held is gone, agents remain, and all
\* organisms left are alive.
PrunedSomeAgents ==
    /\ pc = "environment"
    /\ deaths_last_step > 0
    /\ agents # <<>>
    /\ ever_agent_ids \ AgentIdSet # {}
    /\ \A i \in DOMAIN organisms : organisms[i].alive
    /\ \E k \in DOMAIN agents : agents[k].organism_id > 0

\* C15: mark_dead is idempotent. On a live organism the first call clears
\* alive, zeroes boundary_integrity, appends age_steps to lifespans once and
\* adds one to deaths_last_step and total_deaths, touching no other organism;
\* a further call on it, a call on a dead organism or on an index past the
\* array changes nothing; an index listed twice is counted once; and over the
\* run every death is on record exactly once.
MarkDeadIdempotent ==
    /\ \A i \in 0 .. Len(organisms) + 1 :
          LET w0 == DeathView
              w1 == MarkDead(w0, i)
          IN  /\ AliveAt(organisms, i)
                   => /\ ~At(w1.organisms, i).alive
                      /\ At(w1.organisms, i).boundary_integrity = 0
                      /\ w1.organisms
                           = [organisms EXCEPT ![i + 1].alive = FALSE,
                                               ![i + 1].boundary_integrity = 0]
                      /\ w1.lifespans
                           = Append(lifespans, At(organisms, i).age_steps)
                      /\ w1.deaths_last_step = deaths_last_step + 1
                      /\ w1.total_deaths = total_deaths + 1
              /\ ~AliveAt(organisms, i) => w1 = w0
              /\ MarkDead(w1, i) = w1
              /\ KillAll(w0, << i, i >>) = w1
    /\ total_deaths = Len(lifespans)
    /\ total_deaths
         = Cardinality(ever_stable_ids \ StableIdSet)
           + Cardinality({i \in DOMAIN organisms : ~organisms[i].alive})

\* The boundary phase has just marked an organism dead: it lies dead in the
\* array, on record once, beside an organism still alive.
MarkedDeadBesideLive ==
    /\ pc = "metabolism"
    /\ deaths_last_step = 1
    /\ Len(lifespans) = total_deaths
    /\ \E i, j \in DOMAIN organisms :
          /\ ~organisms[i].alive /\ organisms[i].boundary_integrity = 0
          /\ organisms[j].alive

\* the organisms charged the reproduction cost by this transition
ChargedParents ==
    {i \in DOMAIN organisms :
        organisms'[i].metabolic_state.energy < organisms[i].metabolic_state.energy}

\* C16: a reproduction that cannot obtain all the agent ids of its child
\* skips the parent: no child organism and no child agent is added, the
\* parent keeps its energy, and both exhaustion counters go up by one. So in
\* maybe_reproduce every parent charged has a child, every child has all its
\* child_agents agents, and a phase that stopped before its last parent with
\* room left under the agent cap and the organism index range has counted an
\* exhaustion.
ExhaustionSkipsParent ==
    [][ (pc = "reproduce" /\ config.enable_reproduction) =>
          LET born == total_births' - total_births
              parents == ParentIndices(organisms, config)
          IN  /\ Cardinality(ChargedParents) = born
              /\ Len(organisms') = Len(organisms) + born
              /\ Len(agents') = Len(agents) + born * ChildAgents(config)
              /\ \A j \in Len(organisms) + 1 .. Len(organisms') :
                    Len(organisms'[j].agent_ids) = ChildAgents(config)
              /\ ( /\ born < Len(parents)
                   /\ ~AgentCapReached(Len(agents'), ChildAgents(config))
                   /\ Len(organisms') <= U16Max )
                 => /\ agent_id_exhaustions_last_step'
                         = agent_id_exhaustions_last_step + 1
                    /\ total_agent_id_exhaustions'
                         = total_agent_id_exhaustions + 1
      ]_vars

\* C17: try_new returns Ok exactly when the config validates, there is one
\* network per organism, num_organisms * agents_per_organism does not
\* overflow, is at most MAX_TOTAL_AGENTS and is the number of agents, and
\* every agent's organism_id is below the number of networks; otherwise it
\* returns the error of the first of these that fails, in this order.
TryNewResultByArguments ==
    (call.op = "try_new" /\ call.result # "none") =>
        LET n == config.num_organisms * config.agents_per_organism
            valid == call.config_valid
            nets == config.num_organisms = Len(call.nns)
            fits == n <= UsizeMax
            capped == n <= MAX_TOTAL_AGENTS
            counted == n = Len(call.agents)
            owned == \A k \in DOMAIN call.agents :
                        call.agents[k].organism_id < Len(call.nns)
            r == call.result
        IN  /\ (r = "Ok") <=> (valid /\ nets /\ fits /\ capped /\ counted /\ owned)
            /\ (r = "Config") <=> ~valid
            /\ (r = "NumOrganismsMismatch") <=> (valid /\ ~nets)
            /\ (r = "AgentCountOverflow") <=> (valid /\ nets /\ ~fits)
            /\ (r = "TooManyAgents") <=> (valid /\ nets /\ fits /\ ~capped)
            /\ (r = "AgentCountMismatch")
                  <=> (valid /\ nets /\ fits /\ capped /\ ~counted)
            /\ (r = "InvalidOrganismId")
                  <=> (valid /\ nets /\ fits /\ capped /\ counted /\ ~owned)
            /\ (r = "Ok") <=> (pc = "idle" /\ agents = call.agents)

\* try_new refused for too many agents a call whose agent list would also
\* have failed the count test.
RefusedForCapBeforeCount ==
    /\ call.op = "try_new" /\ call.result = "TooManyAgents"
    /\ Len(call.agents) # config.num_organisms * config.agents_per_organism

\* C18: after any call of Genome::mutate every value of the genome lies in
\* [-value_limit, +value_limit], whatever it held before and whichever
\* branch, or none, was drawn for each element.
MutatedWithinLimit ==
    (call.op = "genome" /\ call.mutations > 0) =>
        \A k \in DOMAIN call.genome[1].data :
            /\ call.genome[1].data[k] >= -call.rates.value_limit
            /\ call.genome[1].data[k] <= call.rates.value_limit

\* the layout a genome built from nn_len weights is to have
ExpectedSegments(nn_len) ==
    << << 0, nn_len >>, << nn_len, 16 >>, << nn_len + 16, 8 >>,
       << nn_len + 24, 8 >>, << nn_len + 32, 4 >>, << nn_len + 36, 4 >>,
       << nn_len + 40, 4 >> >>

\* C19: with_nn_weights(w) yields a genome of length |w| + 44 whose seven
\* segments are contiguous, disjoint and cover the data in index order with
\* sizes (|w|, 16, 8, 8, 4, 4, 4); segment 0 is w and the other segments are
\* all zeros; mutate changes neither the length nor the segment table.
GenomeLayout ==
    (call.op = "genome" /\ call.genome # <<>>) =>
        LET g == call.genome[1]
            w == call.nn_weights
        IN  /\ Len(g.data) = Len(w) + 44
            /\ g.segments = ExpectedSegments(Len(w))
            /\ g.segments[1][1] = 0
            /\ \A i \in 1 .. 6 :
                  g.segments[i + 1][1] = g.segments[i][1] + g.segments[i][2]
            /\ g.segments[7][1] + g.segments[7][2] = Len(g.data)
            /\ \A i \in 0 .. 6 : Len(SegmentData(g, i)) = g.segments[i + 1][2]
            /\ call.mutations = 0
                 => /\ SegmentData(g, 0) = w
                    /\ \A i \in 1 .. 6 :
                          \A k \in DOMAIN SegmentData(g, i) :
                              SegmentData(g, i)[k] = 0

\* A genome built from one weight has been mutated and an element of
\* a later segment is no longer zero.
MutatedBeyondWeights ==
    /\ call.op = "genome" /\ call.genome # <<>>
    /\ call.mutations = 1
    /\ Len(call.nn_weights) = 1
    /\ \E k \in 2 .. Len(call.genome[1].data) : call.genome[1].data[k] # 0

\* C20: from_weights decodes a flat sequence of 212 values row-major: the
\* input-to-hidden matrix from flat indices 0..127 (w_ih[k / 16][k % 16]),
\* the hidden biases from 128..143, the hidden-to-output matrix from 144..207
\* (w_ho[(k-144) / 4][(k-144) % 4]) and the output biases from 208..211, and
\* takes exactly 212 values from the iterator.
FromWeightsRowMajor ==
    (call.op = "from_weights" /\ call.nn # <<>> /\ Len(call.weights) >= 212) =>
        LET nn == call.nn[1]
            w == call.weights
        IN  /\ ~nn.panicked
            /\ Len(nn.w_ih) = 8 /\ \A i \in 1 .. 8 : Len(nn.w_ih[i]) = 16
            /\ Len(nn.b_h) = 16
            /\ Len(nn.w_ho) = 16 /\ \A i \in 1 .. 16 : Len(nn.w_ho[i]) = 4
            /\ Len(nn.b_o) = 4
            /\ \A k \in 0 .. 127 :
                  nn.w_ih[(k \div 16) + 1][(k % 16) + 1] = w[k + 1]
            /\ \A k \in 128 .. 143 : nn.b_h[k - 128 + 1] = w[k + 1]
            /\ \A k \in 144 .. 207 :
                  nn.w_ho[((k - 144) \div 4) + 1][((k - 144) % 4) + 1] = w[k + 1]
            /\ \A k \in 208 .. 211 : nn.b_o[k - 208 + 1] = w[k + 1]
            /\ nn.rest = SubSeq(w, 213, Len(w))
            /\ WEIGHT_COUNT = 212

\* from_weights has decoded an iterator of 214 values and left two of them.
DecodedWithValuesLeft ==
    /\ call.op = "from_weights" /\ call.nn # <<>>
    /\ Len(call.weights) = 214
    /\ ~call.nn[1].panicked
    /\ Len(call.nn[1].rest) = 2
    /\ call.nn[1].b_o[4] = call.weights[212]

\* the network whose parameters are all 0, decoded from exactly 212 values
ZeroNet ==
    [ panicked |-> FALSE,
      w_ih |-> [i \in 1 .. 8 |-> [j \in 1 .. 16 |-> 0]],
      b_h |-> [j \in 1 .. 16 |-> 0],
      w_ho |-> [i \in 1 .. 16 |-> [j \in 1 .. 4 |-> 0]],
      b_o |-> [j \in 1 .. 4 |-> 0],
      rest |-> <<>> ]

\* from_weights has decoded the vector that is 1 at index k only
DecodedUnit(k) ==
    /\ call.op = "from_weights" /\ call.nn # <<>>
    /\ call.weights = [i \in 1 .. 212 |-> IF i = k + 1 THEN 1 ELSE 0]

\* C21 as stated: the vector that is 1 at index 136 only decodes to a
\* network whose b_o[0] is 1 and whose other parameters are all 0.
UnitAt136IsFirstOutputBias ==
    DecodedUnit(136) => call.nn[1] = [ZeroNet EXCEPT !.b_o[1] = 1]

\* C21 amended: index 136 is the ninth hidden bias, b_h[8], and the first
\* output bias is index 208: the vector that is 1 at index 136 only decodes
\* to a network whose b_h[8] is 1 and whose other parameters are all 0, and
\* the vector that is 1 at index 208 only to one whose b_o[0] alone is 1.
UnitAt136IsNinthHiddenBias ==
    /\ DecodedUnit(136) => call.nn[1] = [ZeroNet EXCEPT !.b_h[9] = 1]
    /\ DecodedUnit(208) => call.nn[1] = [ZeroNet EXCEPT !.b_o[1] = 1]

\* from_weights has decoded the unit vector of index 136 into a network
\* with a non-zero hidden bias.
DecodedUnitAt136 ==
    /\ DecodedUnit(136)
    /\ ~call.nn[1].panicked
    /\ \E j \in 1 .. 16 : call.nn[1].b_h[j] # 0

\* ResourceField::total(): the sum of all cells
FieldTotal(field) == SumOver(DOMAIN field, field, 0)

\* C22: in a step whose regeneration rate is zero the total of the resource
\* field does not grow: only the metabolism phase (take) and the environment
\* phase (regenerate) change the field, no phase but the environment phase
\* raises the total, and the environment phase does not when the rate it
\* arrives at is not positive.
TotalNotRaisedAtRateZero ==
    [][ /\ pc \notin {"metabolism", "environment"}
             => resource_field' = resource_field
        /\ (pc # "environment" \/ current_resource_rate' <= 0)
             => FieldTotal(resource_field') <= FieldTotal(resource_field)
      ]_vars

\* A step at rate zero ends with the field below its initial total: an
\* organism took from it and nothing was given back.
TakenAndNotRegenerated ==
    /\ pc = "idle" /\ step_index > 0
    /\ current_resource_rate = 0
    /\ config.resource_regeneration_rate > 0
    /\ FieldTotal(resource_field)
         < FieldTotal(ResourceFieldNew(config.world_size))

\* C30: with environment_cycle_period = P > 0 on a freshly built world the
\* regeneration rate alternates with period P: steps 1..P use
\* resource_regeneration_rate, steps P+1..2P use environment_cycle_low_rate,
\* and so on, every phase lasting exactly P consecutive steps.
CyclePhasesLastPeriodSteps ==
    (config.environment_cycle_period > 0 /\ pc = "idle" /\ step_index > 0) =>
        current_resource_rate
          = IF ((step_index - 1) \div config.environment_cycle_period) % 2 = 0
            THEN config.resource_regeneration_rate
            ELSE config.environment_cycle_low_rate

DeadCount == Cardinality({i \in DOMAIN organisms : ~organisms[i].alive})

\* C24: in step s compaction runs if and only if at least one organism is
\* dead after the reproduction phase and s is a multiple of
\* compaction_interval_steps or the dead are at least 25% of the array,
\* children of this step included; it comes after reproduction and before
\* the resource field is regenerated.
CompactionRunsWhenDue ==
    [][ /\ pc = "reproduce" => pc' = "compact"
        /\ pc = "compact"
             => /\ pc' = "environment"
                /\ resource_field' = resource_field
                /\ (organisms' # organisms)
                     <=> /\ DeadCount >= 1
                         /\ \/ step_index % config.compaction_interval_steps = 0
                            \/ 4 * DeadCount >= Len(organisms)
                /\ (organisms' # organisms)
                     => /\ Len(organisms') = Len(organisms) - DeadCount
                        /\ \A i \in DOMAIN organisms' : organisms'[i].alive
        /\ Len(organisms') < Len(organisms) => pc = "compact"
      ]_vars

\* In a step that is a multiple of the interval a compaction has removed a
\* single dead organism that was less than a quarter of the array.
CompactedOnIntervalAlone ==
    /\ pc = "environment"
    /\ step_index % config.compaction_interval_steps = 0
    /\ deaths_last_step = 1
    /\ Len(organisms) >= 4
    /\ \A i \in DOMAIN organisms : organisms[i].alive
    /\ Cardinality(ever_stable_ids \ StableIdSet) = 1

\* the positions in organisms' of the children this transition appended
Newborn == Len(organisms) + 1 .. Len(organisms')

\* the position, before the transition, of the parent of the child at j
ParentOf(j) ==
    CHOOSE i \in DOMAIN organisms :
        << organisms[i].stable_id >> = organisms'[j].parent_stable_id

\* C25: every child created in a step has a parent that, when the
\* reproduction phase began, was alive with energy >= reproduction_min_energy,
\* boundary_integrity >= reproduction_min_boundary and maturity >= 1; a parent
\* has at most one child per step, the children follow the index order of
\* their parents, and no organism born in the step is a parent in it.
ChildrenHaveEligibleParents ==
    [][ pc = "reproduce" =>
          /\ \A j \in Newborn :
                \E i \in DOMAIN organisms :
                    /\ << organisms[i].stable_id >> = organisms'[j].parent_stable_id
                    /\ organisms[i].alive
                    /\ organisms[i].metabolic_state.energy
                         >= config.reproduction_min_energy
                    /\ organisms[i].boundary_integrity
                         >= config.reproduction_min_boundary
                    /\ organisms[i].maturity >= One
          /\ \A j, k \in Newborn : j < k => ParentOf(j) < ParentOf(k)
      ]_vars

\* A child was born in this step beside a live organism that had too little
\* energy to be a parent and was none.
BornBesideUnderfed ==
    /\ pc = "compact"
    /\ births_last_step >= 1
    /\ \E i \in DOMAIN organisms :
          /\ organisms[i].alive
          /\ organisms[i].age_steps > 0
          /\ organisms[i].metabolic_state.energy < config.reproduction_min_energy
          /\ \A j \in DOMAIN organisms :
                organisms[j].age_steps = 0 =>
                    organisms[j].parent_stable_id # << organisms[i].stable_id >>

\* The stable id of the founder at the root of the lineage of stable id s,
\* by the lineage events.
RECURSIVE RootOf(_)
RootOf(s) ==
    LET born == {e \in DOMAIN lineage_events :
                    lineage_events[e].child_stable_id = s}
    IN  IF born = {} THEN s
        ELSE RootOf(lineage_events[CHOOSE e \in born : TRUE].parent_stable_id)

\* The genome the founder of stable id s was built with.
FounderGenome(s) ==
    IF config.enable_evolution THEN <<0, 0, 0, 0>> ELSE FounderNets[s + 1]

\* C26: a child starts alive with generation = its parent's + 1, maturity 0,
\* age_steps 0, boundary_integrity 1, parent_stable_id = its parent's
\* stable_id, a stable_id greater than that of every organism created before
\* it, and its parent's ancestor_genome, which is the genome of the founder
\* at the root of its lineage; founders start with generation 0, maturity 1
\* and no parent.
ChildStartsFromParent ==
    /\ \A i \in DOMAIN organisms :
          /\ organisms[i].generation = 0
          /\ organisms[i].maturity = One
          /\ organisms[i].parent_stable_id = <<>>
    /\ [](\A i \in DOMAIN organisms :
            organisms[i].ancestor_genome = FounderGenome(RootOf(organisms[i].stable_id)))
    /\ [][ pc = "reproduce" =>
            \A j \in Newborn :
                LET child == organisms'[j]
                    parent == organisms[ParentOf(j)]
                IN  /\ child.alive
                    /\ child.generation = parent.generation + 1
                    /\ child.maturity = 0
                    /\ child.age_steps = 0
                    /\ child.boundary_integrity = One
                    /\ child.parent_stable_id = << parent.stable_id >>
                    /\ child.ancestor_genome = parent.ancestor_genome
                    /\ \A s \in ever_stable_ids : child.stable_id > s
                    /\ \A k \in Newborn :
                          k < j => organisms'[k].stable_id < child.stable_id
       ]_vars

\* A child of a child was just born, its genome and its parent's both
\* changed by mutation.
BornGrandchildMutated ==
    /\ pc = "compact"
    /\ births_last_step >= 1
    /\ \E i, k \in DOMAIN organisms :
          /\ organisms[i].age_steps = 0
          /\ organisms[i].generation = 2
          /\ organisms[i].parent_stable_id = << organisms[k].stable_id >>
          /\ organisms[i].genome # organisms[k].genome
          /\ organisms[k].genome # organisms[k].ancestor_genome

\* Organism i of the array before this transition has a child among the
\* organisms it appends.
HasChild(i) ==
    \E j \in Newborn : organisms'[j].parent_stable_id = << organisms[i].stable_id >>

\* C27: in the reproduction phase a parent's energy goes down, by exactly
\* reproduction_energy_cost and not below zero, if and only if a child is
\* created from it, and the child starts with energy = reproduction_energy_cost
\* and waste 0; a reproduction that is skipped or aborted leaves the energy of
\* the parent as it was.
ParentPaysIffChildBorn ==
    [][ pc = "reproduce" =>
          /\ \A i \in DOMAIN organisms :
                LET before == organisms[i].metabolic_state.energy
                    after == organisms'[i].metabolic_state.energy
                IN  IF HasChild(i)
                    THEN after = before - config.reproduction_energy_cost /\ after >= 0
                    ELSE after = before
          /\ \A j \in Newborn :
                organisms'[j].metabolic_state
                    = [ energy |-> config.reproduction_energy_cost, waste |-> 0 ]
      ]_vars

\* The agents of the world after this transition that have id among ids.
AgentsWithIds(ids) ==
    {k \in DOMAIN agents' : \E n \in DOMAIN ids : agents'[k].id = ids[n]}

\* C28: every organism created by reproduction owns at birth exactly
\* child_agents = max(agents_per_organism / 2, reproduction_child_min_agents)
\* agents, never fewer, each with an agent id never used before, organism_id
\* equal to the index of the child and internal_state[2] = 1.0.
ChildOwnsChildAgents ==
    [][ pc = "reproduce" =>
          \A j \in Newborn :
              LET ids == organisms'[j].agent_ids
              IN  /\ Len(ids) = ChildAgents(config)
                  /\ \A m, n \in DOMAIN ids : m # n => ids[m] # ids[n]
                  /\ \A n \in DOMAIN ids : ids[n] \notin ever_agent_ids
                  /\ Cardinality(AgentsWithIds(ids)) = Len(ids)
                  /\ \A k \in DOMAIN agents' :
                        k \in AgentsWithIds(ids) <=> agents'[k].organism_id = j - 1
                  /\ \A k \in AgentsWithIds(ids) :
                        agents'[k].internal_state[3] = One
      ]_vars

\* C29: lineage events correspond one-to-one with births: the reproduction
\* phase appends, for each child it creates and in the order of creation,
\* exactly one event with the stable_id of the parent, the stable_id of the
\* child and the generation of the child; the child_stable_id of the events
\* is strictly increasing; and in every RunSummary lineage_events.len() =
\* total_reproduction_events.
LineageMatchesBirths ==
    /\ [](\A m, n \in DOMAIN lineage_events :
            m < n => lineage_events[m].child_stable_id
                       < lineage_events[n].child_stable_id)
    /\ [](exp.summary # <<>> =>
            Len(exp.summary[1].lineage_events)
                = exp.summary[1].total_reproduction_events)
    /\ [][ pc = "reproduce" =>
            /\ Len(lineage_events') = Len(lineage_events) + Cardinality(Newborn)
            /\ SubSeq(lineage_events', 1, Len(lineage_events)) = lineage_events
            /\ \A n \in 1 .. Cardinality(Newborn) :
                  LET event == lineage_events'[Len(lineage_events) + n]
                      child == organisms'[Len(organisms) + n]
                  IN  /\ << event.parent_stable_id >> = child.parent_stable_id
                      /\ event.child_stable_id = child.stable_id
                      /\ event.generation = child.generation
       ]_vars

\* A summary of a run with two births, returned by a world that had births
\* before the run.
SummaryOfBirthsAfterBirths ==
    /\ exp.summary # <<>>
    /\ exp.births_before >= 1
    /\ Len(exp.summary[1].lineage_events) >= 2

\* The stable ids the children of the worlds for growth can have: the two
\* founders have 0 and 1.
StableIdRange == 2 .. MAX_TOTAL_AGENTS + 2

\* What one growth phase adds to the maturity of an immature organism.
MaturationRate == FMul(One \div config.growth_maturation_steps, MaturationRateModifier)

\* The organism of stable id s is in the array, alive, and satisfies P.
LiveWith(s, P(_)) ==
    \E i \in DOMAIN organisms :
        organisms[i].stable_id = s /\ organisms[i].alive /\ P(organisms[i])

Immature(org) == org.maturity < One

Mature(org) == org.maturity = One

\* The organism is too young to have matured: it has not been through enough
\* growth phases.
TooYoung(org) == org.age_steps * MaturationRate < One

\* The organism of stable id s is dead or gone from the array.
NotLive(s) ==
    \A i \in DOMAIN organisms : organisms[i].stable_id = s => ~organisms[i].alive

BirthStep(s) ==
    LET born == {e \in DOMAIN lineage_events :
                    lineage_events[e].child_stable_id = s}
    IN  IF born = {} THEN 0 ELSE lineage_events[CHOOSE e \in born : TRUE].step

\* C32: after every step every live organism has age_steps <=
\* max_organism_age_steps; its age is the number of steps since the step of
\* its birth, so every organism is dead at the latest max_organism_age_steps
\* + 1 steps after that step; and every value in lifespans is <=
\* max_organism_age_steps + 1.
AgeWithinMaximum ==
    /\ pc = "idle" =>
          \A i \in DOMAIN organisms :
              LET lived == step_index - BirthStep(organisms[i].stable_id)
              IN  /\ organisms[i].alive =>
                        /\ organisms[i].age_steps <= config.max_organism_age_steps
                        /\ organisms[i].age_steps = lived
                  /\ lived >= config.max_organism_age_steps + 1 => ~organisms[i].alive
    /\ \A n \in DOMAIN lifespans :
          lifespans[n] <= config.max_organism_age_steps + 1

\* A founder has died of age, at max_organism_age_steps + 1, in a step that
\* left a child of two steps alive.
DiedOfAgeBesideChild ==
    /\ pc = "idle"
    /\ \E n \in DOMAIN lifespans : lifespans[n] = config.max_organism_age_steps + 1
    /\ \E i \in DOMAIN organisms :
          /\ organisms[i].alive /\ organisms[i].generation > 0
          /\ organisms[i].age_steps = 2

\* C33: internal_state[2] lags the boundary integrity by one tick. When
\* step() is called the organisms are as the previous step left them; the
\* state phase, the first to touch them, copies into internal_state[2] of
\* every agent of a live organism the boundary_integrity found there; and no
\* later phase of the step changes internal_state[2] of an agent, whatever
\* it does to the boundary integrity.
BoundarySlotLagsOneTick ==
    [][ /\ pc = "idle" => organisms' = organisms /\ agents' = agents
        /\ pc = "state" =>
              /\ organisms' = organisms
              /\ \A k \in DOMAIN agents :
                    At(organisms, agents[k].organism_id).alive =>
                        agents'[k].internal_state[3]
                            = At(organisms, agents[k].organism_id).boundary_integrity
        /\ pc \notin {"idle", "state"} =>
              \A k \in DOMAIN agents, n \in DOMAIN agents' :
                  agents[k].id = agents'[n].id =>
                      agents'[n].internal_state[3] = agents[k].internal_state[3]
      ]_vars

\* After a step an agent of a live organism shows a boundary integrity that
\* its organism had before the step and has no more.
BoundarySlotBehind ==
    /\ pc = "idle" /\ step_index > 0
    /\ \E k \in DOMAIN agents :
          /\ At(organisms, agents[k].organism_id).alive
          /\ At(organisms, agents[k].organism_id).age_steps > 0
          /\ agents[k].internal_state[3]
                # At(organisms, agents[k].organism_id).boundary_integrity

\* The phases of step() in the order it runs them (lines 548-603).
PhaseOrder ==
    { <<"idle", "state">>, <<"state", "boundary">>, <<"boundary", "metabolism">>,
      <<"metabolism", "growth">>, <<"growth", "reproduce">>,
      <<"reproduce", "compact">>, <<"compact", "environment">>,
      <<"environment", "idle">> }

\* the ages of the organisms a transition marks dead, in index order
DiedAges ==
    LET idx == ToKill(organisms,
                      [i \in DOMAIN organisms |->
                          organisms[i].alive /\ ~organisms'[i].alive], 0)
    IN  [k \in DOMAIN idx |-> At(organisms, idx[k]).age_steps]

\* C34: the phases of a step run in the fixed order state update, boundary,
\* metabolism, growth/crowding, reproduction, compaction, environment, and a
\* death counts for every later phase of the same step.  No organism ages
\* before the growth phase, so the lifespan that the boundary phase records
\* for an organism it marks dead is the age the organism had before the
\* step.  An organism that is dead when the metabolism phase starts is left
\* as it is by that phase and takes nothing from the resource field (the
\* field loses at most one take per live organism); one that is dead when
\* the growth phase starts neither ages nor matures; and one that is dead
\* when the reproduction phase starts, whichever earlier phase marked it,
\* has no child in that step.
DeathHoldsForLaterPhases ==
    [][ /\ << pc, pc' >> \in PhaseOrder
        /\ pc \in {"idle", "state", "boundary", "metabolism"} =>
              /\ Len(organisms') = Len(organisms)
              /\ \A i \in DOMAIN organisms :
                    /\ organisms'[i].age_steps = organisms[i].age_steps
                    /\ organisms'[i].maturity = organisms[i].maturity
        /\ pc \in {"idle", "state"} =>
              lifespans' = lifespans /\ resource_field' = resource_field
        /\ pc = "boundary" =>
              lifespans' = lifespans \o DiedAges /\ resource_field' = resource_field
        /\ pc = "metabolism" =>
              /\ \A i \in DOMAIN organisms :
                    ~organisms[i].alive => organisms'[i] = organisms[i]
              /\ FieldTotal(resource_field) - FieldTotal(resource_field')
                    <= AliveCount(organisms)
        /\ pc = "growth" =>
              /\ Len(organisms') = Len(organisms)
              /\ resource_field' = resource_field
              /\ \A i \in DOMAIN organisms :
                    ~organisms[i].alive => organisms'[i] = organisms[i]
        /\ pc = "reproduce" =>
              /\ resource_field' = resource_field
              /\ \A i \in DOMAIN organisms :
                    ~organisms[i].alive =>
                        /\ organisms'[i] = organisms[i]
                        /\ ~HasChild(i)
      ]_vars

\* After the reproduction phase of a step with a birth and a death: a founder
\* that the boundary or the metabolism phase of this step marked dead, with
\* the age of the steps before this one as its recorded lifespan, beside the
\* parent of the newborn.
DiedBeforeBirthInStep ==
    /\ pc = "compact"
    /\ births_last_step > 0
    /\ deaths_last_step > 0
    /\ DeadCount = deaths_last_step
    /\ \E i \in DOMAIN organisms :
          /\ ~organisms[i].alive
          /\ organisms[i].parent_stable_id = << >>
          /\ organisms[i].age_steps = step_index - 1
          /\ organisms[i].age_steps \in Range(lifespans)

\* the organisms a transition marks dead
NewlyDead ==
    {i \in DOMAIN organisms \cap DOMAIN organisms' :
        organisms[i].alive /\ ~organisms'[i].alive}

\* C35: a dead organism is inert.  The network query gives the agents of a
\* dead organism zero deltas.  A phase that is not a compaction keeps every
\* organism that is dead at its start in its place with the same age_steps,
\* energy, waste, maturity, genome, generation and stable_id, and keeps the
\* position and the internal_state of each of its agents; a compaction
\* either does the same or leaves no dead organism in the array.  lifespans,
\* deaths_last_step and total_deaths grow only by the organisms that a phase
\* turns from alive to dead, so an organism that was dead before adds
\* nothing to them.
DeadOrganismUntouched ==
    /\ [](pc = "state" =>
           \A k \in DOMAIN agents :
               ~At(organisms, agents[k].organism_id).alive =>
                   locals.deltas[k] = << 0, 0, 0, 0 >>)
    /\ [][ /\ pc # "compact" =>
                /\ \A i \in DOMAIN organisms :
                      ~organisms[i].alive =>
                          /\ i \in DOMAIN organisms'
                          /\ ~organisms'[i].alive
                          /\ organisms'[i].age_steps = organisms[i].age_steps
                          /\ organisms'[i].metabolic_state
                                = organisms[i].metabolic_state
                          /\ organisms'[i].maturity = organisms[i].maturity
                          /\ organisms'[i].genome = organisms[i].genome
                          /\ organisms'[i].generation = organisms[i].generation
                          /\ organisms'[i].stable_id = organisms[i].stable_id
                /\ \A k \in DOMAIN agents :
                      ~At(organisms, agents[k].organism_id).alive =>
                          /\ k \in DOMAIN agents'
                          /\ agents'[k].id = agents[k].id
                          /\ agents'[k].position = agents[k].position
                          /\ agents'[k].internal_state = agents[k].internal_state
                /\ Len(lifespans') = Len(lifespans) + Cardinality(NewlyDead)
                /\ total_deaths' = total_deaths + Cardinality(NewlyDead)
                /\ deaths_last_step' =
                      (IF pc = "idle" THEN 0 ELSE deaths_last_step)
                        + Cardinality(NewlyDead)
           /\ pc = "compact" =>
                /\ \/ organisms' = organisms /\ agents' = agents
                   \/ \A j \in DOMAIN organisms' : organisms'[j].alive
                /\ lifespans' = lifespans
                /\ total_deaths' = total_deaths
                /\ deaths_last_step' = deaths_last_step
          ]_vars

\* After a step, an organism that died in an earlier step is still in the
\* array with an agent.
DeadKeptThroughStep ==
    /\ pc = "idle"
    /\ step_index > 1
    /\ DeadCount > deaths_last_step
    /\ \E k \in DOMAIN agents : ~At(organisms, agents[k].organism_id).alive

\* the steps of 1 .. steps that the list xs names, in increasing order
RECURSIVE NamedSteps(_, _, _)
NamedSteps(xs, from, steps) ==
    IF from > steps THEN <<>>
    ELSE (IF from \in Range(xs) THEN <<from>> ELSE <<>>)
            \o NamedSteps(xs, from + 1, steps)

\* C36: try_run_experiment_with_snapshots records exactly one frame for
\* every step of 1 ..= steps that the list snapshot_steps names, in
\* increasing step order, whatever the order and the repetition of the
\* list, and ignores the steps of the list outside 1 ..= steps; the frame of
\* step s lists exactly the organisms that are alive after step s, by
\* stable_id.  During a run the frames so far are those of the named steps
\* up to the step the loop is at, the frame of a named step is added after
\* that step with the stable ids of the live organisms of the world as it
\* is then, and the summary holds the frames of all named steps of the run.
OneFramePerNamedStep ==
    /\ [](exp.variant = "snapshots" /\ exp.active /\ pc = "idle" =>
            [n \in DOMAIN exp.snapshots |-> exp.snapshots[n].step]
                = NamedSteps(exp.snapshot_steps, 1, exp.step))
    /\ [](exp.variant = "snapshots" /\ exp.result = "RunSummary" =>
            [n \in DOMAIN exp.summary[1].organism_snapshots |->
                exp.summary[1].organism_snapshots[n].step]
                = NamedSteps(exp.snapshot_steps, 1, exp.steps))
    /\ [][ /\ (exp.variant = "snapshots" /\ pc = "sample"
                 /\ exp.step \in Range(exp.snapshot_steps)) =>
                /\ Len(exp'.snapshots) = Len(exp.snapshots) + 1
                /\ SubSeq(exp'.snapshots, 1, Len(exp.snapshots)) = exp.snapshots
                /\ LET frame == exp'.snapshots[Len(exp'.snapshots)]
                   IN  /\ frame.step = exp.step
                       /\ [n \in DOMAIN frame.organisms |->
                              frame.organisms[n].stable_id]
                             = LiveStableIds(organisms)
           /\ (exp.active /\ pc # "sample") => exp'.snapshots = exp.snapshots
          ]_vars

\* A finished run of three steps with the list 3, 1, 5: two frames, of steps
\* 1 and 3, that list different organisms.
FramesOfStepsOneAndThree ==
    /\ exp.variant = "snapshots" /\ exp.result = "RunSummary"
    /\ exp.steps = 3
    /\ exp.snapshot_steps[1] = 3
    /\ Len(exp.summary[1].organism_snapshots) = 2
    /\ exp.summary[1].organism_snapshots[1].organisms
          # exp.summary[1].organism_snapshots[2].organisms

RECURSIVE SampledSteps(_, _, _)
SampledSteps(from, steps, sample_every) ==
    IF from > steps THEN <<>>
    ELSE (IF from % sample_every = 0 \/ from = steps THEN <<from>> ELSE <<>>)
            \o SampledSteps(from + 1, steps, sample_every)

\* C38: a successful run of either driver over `steps` steps with sampling
\* interval sample_every returns samples taken exactly after the steps that
\* are multiples of sample_every and after the final step: there are
\* ceil(steps / sample_every) of them (none when steps = 0), their steps are
\* strictly increasing, the last one has step = steps, and the summary's
\* final_alive_count is the alive_count of the last sample.
SamplesOnIntervalAndAtEnd ==
    exp.result = "RunSummary" =>
        LET r == exp.summary[1]
            n == Len(r.samples)
        IN  /\ [k \in DOMAIN r.samples |-> r.samples[k].step]
                  = SampledSteps(1, exp.steps, exp.sample_every)
            /\ n = CeilDiv(exp.steps, exp.sample_every)
            /\ exp.steps = 0 => n = 0
            /\ \A k \in 1 .. n - 1 : r.samples[k].step < r.samples[k + 1].step
            /\ exp.steps > 0 =>
                  /\ r.samples[n].step = exp.steps
                  /\ r.final_alive_count = r.samples[n].alive_count

\* A finished run of three steps sampled every second step: two samples, of
\* steps 2 and 3, with different numbers of live organisms.
SampledAtTwoAndThree ==
    /\ exp.result = "RunSummary"
    /\ exp.steps = 3 /\ exp.sample_every = 2
    /\ Len(exp.summary[1].samples) = 2
    /\ exp.summary[1].samples[1].alive_count
          # exp.summary[1].samples[2].alive_count

\* C39: sampling only observes.  The part of the experiment loop that
\* collects the metrics and the snapshot of a step changes no field of the
\* world and nothing that a later step reads: only the lists of samples and
\* frames of the run grow.  The steps of the run change nothing of the run
\* but its step counter, so neither sample_every nor snapshot_steps reaches
\* the world.
SamplingOnlyObserves ==
    [][ /\ pc = "sample" =>
              /\ UNCHANGED << config, worldVars, locals >>
              /\ [exp' EXCEPT !.samples = exp.samples,
                              !.snapshots = exp.snapshots] = exp
        /\ (exp.active /\ pc # "sample" /\ exp'.active) =>
              [exp' EXCEPT !.step = exp.step] = exp
      ]_vars

\* During a run, at the start of its third step: samples and frames have
\* been collected after earlier steps, and the world holds the lifespans and
\* lineage events of those steps.
SteppedAfterSampling ==
    /\ pc = "idle" /\ exp.active
    /\ exp.step = 2
    /\ exp.samples # <<>> /\ exp.snapshots # <<>>
    /\ lifespans # <<>> /\ lineage_events # <<>>

\* C40: the population accounts add up.  In a world whose founders were all
\* alive at creation the number of live organisms is always num_organisms +
\* total_births - total_deaths; every death records one lifespan, so the
\* lifespans recorded since the start are as many as the deaths; and after
\* every step the dead organisms still in the array are none or fewer than a
\* quarter of the array.
PopulationAccountsAddUp ==
    /\ AliveCount(organisms)
          = config.num_organisms + total_births - total_deaths
    /\ Len(lifespans) = total_deaths
    /\ pc = "idle" =>
          \/ DeadCount = 0
          \/ DeadCount * 4 < Len(organisms)

\* After a step of a world with births and deaths: a dead organism is still
\* in the array, and an earlier compaction has removed another.
DeadKeptBelowQuarter ==
    /\ pc = "idle"
    /\ total_births > 0
    /\ DeadCount > 0
    /\ total_deaths > DeadCount
====
